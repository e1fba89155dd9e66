------------------------------- MODULE Adaptors -------------------------------
(***************************************************************************)
(* The adaptors of sigc++/adaptors: functors made of functors. User code   *)
(* wraps a functor in one adaptor after the other; what the result does    *)
(* when it is called, and which objects a slot watches when the functor is *)
(* visited, is computed the way the templates do it, and compared with     *)
(* what the documentation says of each adaptor.                            *)
(*                                                                         *)
(* Calls are symbolic: Argument(i) is the i-th argument of the outermost   *)
(* functor, and Call(f, args) is the call of a function.                   *)
(***************************************************************************)
EXTENDS TupleUtils, FiniteSets

CONSTANTS
    Object,         \* objects that functors refer to
    Trackable,      \* those that derive from trackable
    MaxWraps,       \* bound: how many adaptors are put on each other
    MaxArity,       \* bound: the arguments of a functor
    ManyAtLocation  \* whether bind<I>() with I >= 0 binds several arguments

ASSUME AdaptorsAssumption ==
    /\ Trackable \subseteq Object
    /\ MaxWraps \in Nat /\ MaxArity \in Nat
    /\ ManyAtLocation \in BOOLEAN

VARIABLES
    functor,    \* the functor that has been made
    arity,      \* the number of its arguments
    wraps,      \* how many adaptors it has
    meaning,    \* history: what it does, according to the documentation
    watched     \* history: the objects whose end ends its slot, likewise

vars == <<functor, arity, wraps, meaning, watched>>

(***************************************************************************)
(* Functors that are not adaptors, and arguments that are bound.           *)
(***************************************************************************)
Function(f) == [op |-> "function", name |-> f]
Lambda(f) == [op |-> "lambda", name |-> f]
ptr_fun(f) == [op |-> "pointer_functor", name |-> f]

\* The object itself, as an argument or as what a visitor comes to.
Reference(o) == [op |-> "object", object |-> o]
Value == [op |-> "value"]

limit_reference(o) == [op |-> "limit_reference", visited |-> Reference(o)]

mem_fun(o, f) == [op |-> "bound_mem_functor", name |-> f, obj_ |-> limit_reference(o)]

\* A value, or an object by std::ref(), that bind() or bind_return() binds.
Bound == {[op |-> "bound_argument", visited_ |-> Value]}
           \cup {[op |-> "bound_argument", visited_ |-> limit_reference(o)] : o \in Object}

\* bound_argument::invoke() and limit_reference::invoke()
BoundInvoke(b) == IF b.visited_ = Value THEN Value ELSE b.visited_.visited

TransformEachInvoker == [b \in Bound |-> BoundInvoke(b)]

(***************************************************************************)
(* operator() of the adaptors.                                             *)
(***************************************************************************)
\* functor_trait::functor_type
functor_type(f) == IF f.op = "function" THEN ptr_fun(f.name) ELSE f

Adaptor == {"adaptor_functor", "bind", "bind_last", "hide", "compose1", "compose2",
            "retype", "retype_return", "hide_return", "bind_return",
            "exception_catch", "track_obj"}

\* Mutant: functors are stored as they are.
NotAdapted(f) == f

\* adaptor_trait::adaptor_type, the type of adapts::functor_
adaptor_type(f) ==
    IF f.op \in Adaptor THEN f
    ELSE [op |-> "adaptor_functor", functor_ |-> functor_type(f)]

Call(f, args) == [op |-> "call", name |-> f.name, args |-> args]

\* The call of the functor f with args, as an expression.
RECURSIVE Invoke(_, _)

\* Mutant: the bound arguments take the place of an argument.
BindReplaces(f, args) ==
    Invoke(f.functor_, tuple_start(args, f.location)
                         \o tuple_transform_each(f.bound_, TransformEachInvoker)
                         \o tuple_end(args, IF f.location < Len(args)
                                            THEN Len(args) - f.location - 1 ELSE 0))

bind_functor(f, args) ==
    Invoke(f.functor_, tuple_start(args, f.location)
                         \o tuple_transform_each(f.bound_, TransformEachInvoker)
                         \o tuple_end(args, Len(args) - f.location))

\* bind_functor<-1>
bind_functor_last(f, args) ==
    Invoke(f.functor_, args \o tuple_transform_each(f.bound_, TransformEachInvoker))

hide_functor(f, args) ==
    LET index_ignore == IF f.location = -1 THEN Len(args) - 1 ELSE f.location
    IN  Invoke(f.functor_, tuple_start(args, index_ignore)
                             \o tuple_end(args, Len(args) - index_ignore - 1))

compose1_functor(f, args) == Invoke(f.functor_, <<Invoke(f.get_, args)>>)

compose2_functor(f, args) ==
    Invoke(f.functor_, <<Invoke(f.get1_, args), Invoke(f.get2_, args)>>)

Cast(e) == [op |-> "cast", of |-> e]

retype_functor(f, args) ==
    Invoke(f.functor_, [i \in DOMAIN args |-> Cast(args[i])])

retype_return_functor(f, args) == Cast(Invoke(f.functor_, args))

Dropped(e) == [op |-> "void", of |-> e]

\* retype_return_functor<void>
hide_return_functor(f, args) == Dropped(Invoke(f.functor_, args))

Then(e, result) == [op |-> "then", of |-> e, result |-> result]

bind_return_functor(f, args) ==
    Then(Invoke(f.functor_, args), BoundInvoke(f.ret_value_))

Try(e, handler) == [op |-> "try", of |-> e, handler |-> handler]

exception_catch_functor(f, args) ==
    Try(Invoke(f.functor_, args), Invoke(f.catcher_, <<>>))

Invoke(f, args) ==
    CASE f.op \in {"function", "pointer_functor", "lambda"} -> Call(f, args)
      [] f.op = "bound_mem_functor" -> Call(f, <<f.obj_.visited>> \o args)
      [] f.op \in {"adaptor_functor", "track_obj"} -> Invoke(f.functor_, args)
      [] f.op = "bind" -> bind_functor(f, args)
      [] f.op = "bind_last" -> bind_functor_last(f, args)
      [] f.op = "hide" -> hide_functor(f, args)
      [] f.op = "compose1" -> compose1_functor(f, args)
      [] f.op = "compose2" -> compose2_functor(f, args)
      [] f.op = "retype" -> retype_functor(f, args)
      [] f.op = "retype_return" -> retype_return_functor(f, args)
      [] f.op = "hide_return" -> hide_return_functor(f, args)
      [] f.op = "bind_return" -> bind_return_functor(f, args)
      [] f.op = "exception_catch" -> exception_catch_functor(f, args)

(***************************************************************************)
(* What visitor<>::do_visit_each() goes on to visit.                       *)
(***************************************************************************)
VisitBind(f) == <<f.functor_, f.bound_[1]>>

\* Mutant: the bound arguments are not visited.
FunctorOnly(f) == <<f.functor_>>

VisitBindLast(f) == <<f.functor_>> \o tuple_for_each(f.bound_)

VisitBindReturn(f) == <<f.ret_value_, f.functor_>>

VisitCompose1(f) == <<f.functor_, f.get_>>

VisitCompose2(f) == <<f.functor_, f.get1_, f.get2_>>

VisitExceptionCatch(f) == <<f.functor_, f.catcher_>>

VisitTrackObj(f) == <<f.functor_>> \o tuple_for_each(f.obj_)

Targets(f) ==
    CASE f.op = "bind" -> VisitBind(f)
      [] f.op = "bind_last" -> VisitBindLast(f)
      [] f.op = "bind_return" -> VisitBindReturn(f)
      [] f.op = "compose1" -> VisitCompose1(f)
      [] f.op = "compose2" -> VisitCompose2(f)
      [] f.op = "exception_catch" -> VisitExceptionCatch(f)
      [] f.op = "track_obj" -> VisitTrackObj(f)
      [] f.op = "bound_mem_functor" -> <<f.obj_>>
      [] f.op = "bound_argument" -> <<f.visited_>>
      [] f.op = "limit_reference" -> <<f.visited>>
      [] OTHER -> <<f.functor_>>

\* limit_trackable_target: the action takes only what derives from trackable.
LimitTrackable(e) == IF e.op = "object" THEN {e.object} \cap Trackable ELSE {}

\* visit_each_trackable(): the objects with which a slot of f registers.
RECURSIVE Visit(_)
Visit(f) ==
    IF f.op \in {"function", "pointer_functor", "lambda", "object", "value"}
    THEN LimitTrackable(f)
    ELSE LET targets == Targets(f) IN UNION {Visit(targets[i]) : i \in DOMAIN targets}

-----------------------------------------------------------------------------
(***************************************************************************)
(* What the documentation says: the meaning of an adaptor is the meaning   *)
(* of the functor with other arguments in place of its own.                *)
(***************************************************************************)
Argument(i) == [op |-> "arg", index |-> i]

Arguments(n) == [i \in 1 .. n |-> Argument(i)]

RECURSIVE Substituted(_, _)
Substituted(e, env) ==
    CASE e.op = "arg" -> env[e.index]
      [] e.op \in {"object", "value"} -> e
      [] e.op = "call" ->
            [e EXCEPT !.args = [i \in DOMAIN e.args |-> Substituted(e.args[i], env)]]
      [] OTHER -> [e EXCEPT !.of = Substituted(e.of, env)]

ObjectsOf(bound) ==
    {o \in Trackable : \E i \in DOMAIN bound : bound[i].visited_ = limit_reference(o)}

\* Functors of n arguments that are no adaptors, their meaning and objects.
Basic(n) ==
    {[functor |-> f, meaning |-> Call(f, Arguments(n)), watched |-> {}] :
        f \in {Function("foo"), Lambda("lambda")}}
      \cup {[functor |-> mem_fun(o, "bar"),
             meaning |-> Call(mem_fun(o, "bar"), <<Reference(o)>> \o Arguments(n)),
             watched |-> {o} \cap Trackable] : o \in Object}

Init ==
    /\ arity \in 0 .. MaxArity
    /\ wraps = 0
    /\ \E b \in Basic(arity) :
          functor = b.functor /\ meaning = b.meaning /\ watched = b.watched

Wrapped(f, n) ==
    /\ wraps < MaxWraps /\ n \in 0 .. MaxArity
    /\ functor' = f
    /\ arity' = n
    /\ wraps' = wraps + 1

\* "bind<1>(&foo,1)(2,3) fixes the second argument and calls foo(2,1,3)"
Bind(location, bound) ==
    LET k == Len(bound)
        first == IF location = -1 THEN arity - k ELSE location
    IN  /\ k \in 1 .. arity /\ first \in 0 .. arity - k
        /\ location # -1 /\ k > 1 => ManyAtLocation
        /\ Wrapped(IF location = -1
                   THEN [op |-> "bind_last", functor_ |-> adaptor_type(functor),
                         bound_ |-> bound]
                   ELSE [op |-> "bind", functor_ |-> adaptor_type(functor),
                         location |-> location, bound_ |-> bound],
                   arity - k)
        /\ meaning' = Substituted(meaning, [i \in 1 .. arity |->
              IF i <= first THEN Argument(i)
              ELSE IF i <= first + k THEN BoundInvoke(bound[i - first]) ELSE Argument(i - k)])
        /\ watched' = watched \cup ObjectsOf(bound)

\* "hide<1>(&foo)(1,2,3) adds a dummy parameter in the middle and calls foo(1,3)"
Hide(location) ==
    LET dummy == IF location = -1 THEN arity ELSE location
    IN  /\ dummy \in 0 .. arity
        /\ Wrapped([op |-> "hide", functor_ |-> adaptor_type(functor), location |-> location],
                   arity + 1)
        /\ meaning' = Substituted(meaning, [i \in 1 .. arity |->
              Argument(IF i <= dummy THEN i ELSE i + 1)])
        /\ UNCHANGED watched

\* "compose(&square_root, &sum)(9, 16) calls square_root(sum(9, 16))"
Compose1(getter, n) ==
    /\ arity = 1
    /\ Wrapped([op |-> "compose1", functor_ |-> adaptor_type(functor),
                get_ |-> getter.functor], n)
    /\ meaning' = Substituted(meaning, <<getter.meaning>>)
    /\ watched' = watched \cup getter.watched

Compose2(getter1, getter2, n) ==
    /\ arity = 2
    /\ Wrapped([op |-> "compose2", functor_ |-> adaptor_type(functor),
                get1_ |-> getter1.functor, get2_ |-> getter2.functor], n)
    /\ meaning' = Substituted(meaning, <<getter1.meaning, getter2.meaning>>)
    /\ watched' = watched \cup getter1.watched \cup getter2.watched

\* Only functors of libsigc++ whose parameter types are known can be retyped.
Retype ==
    /\ functor.op \in {"pointer_functor", "bound_mem_functor"}
    /\ Wrapped([op |-> "retype", functor_ |-> adaptor_type(functor)], arity)
    /\ meaning' = Substituted(meaning, [i \in 1 .. arity |-> Cast(Argument(i))])
    /\ UNCHANGED watched

RetypeReturn ==
    /\ Wrapped([op |-> "retype_return", functor_ |-> adaptor_type(functor)], arity)
    /\ meaning' = Cast(meaning)
    /\ UNCHANGED watched

HideReturn ==
    /\ Wrapped([op |-> "hide_return", functor_ |-> adaptor_type(functor)], arity)
    /\ meaning' = Dropped(meaning)
    /\ UNCHANGED watched

BindReturn(value) ==
    /\ Wrapped([op |-> "bind_return", functor_ |-> adaptor_type(functor),
                ret_value_ |-> value], arity)
    /\ meaning' = Then(meaning, BoundInvoke(value))
    /\ watched' = watched \cup ObjectsOf(<<value>>)

ExceptionCatch(catcher) ==
    /\ Wrapped([op |-> "exception_catch", functor_ |-> adaptor_type(functor),
                catcher_ |-> catcher.functor], arity)
    /\ meaning' = Try(meaning, catcher.meaning)
    /\ watched' = watched \cup catcher.watched

TrackObject(objs) ==
    /\ Wrapped([op |-> "track_obj", functor_ |-> adaptor_type(functor),
                obj_ |-> [i \in DOMAIN objs |-> limit_reference(objs[i])]], arity)
    /\ watched' = watched \cup {objs[i] : i \in DOMAIN objs}
    /\ UNCHANGED meaning

\* ptr_fun() of a function
PtrFun ==
    /\ functor.op = "function"
    /\ functor' = ptr_fun(functor.name)
    /\ UNCHANGED <<arity, wraps, meaning, watched>>

Next ==
    \/ PtrFun \/ Retype \/ RetypeReturn \/ HideReturn
    \/ \E location \in -1 .. MaxArity :
          \/ \E k \in 1 .. 2 : \E bound \in [1 .. k -> Bound] : Bind(location, bound)
          \/ Hide(location)
    \/ \E n \in 0 .. MaxArity : \E getter \in Basic(n) :
          \/ Compose1(getter, n)
          \/ \E other \in Basic(n) : Compose2(getter, other, n)
    \/ \E value \in Bound : BindReturn(value)
    \/ \E catcher \in Basic(0) : ExceptionCatch(catcher)
    \/ \E k \in 1 .. 2 : \E objs \in [1 .. k -> Trackable] : TrackObject(objs)

Spec == Init /\ [][Next]_vars

-----------------------------------------------------------------------------
(***************************************************************************)
(* Safety.                                                                 *)
(***************************************************************************)
\* An adaptor stores an adaptor, whatever it was given: a functor is stored in
\* exactly one adaptor_functor, and a function as a pointer_functor.
TypeOK ==
    /\ arity \in 0 .. MaxArity /\ wraps \in 0 .. MaxWraps
    /\ watched \subseteq Trackable
    /\ functor.op # "adaptor_functor"
    /\ functor.op \in Adaptor =>
          LET stored == functor.functor_
          IN  /\ stored.op \in Adaptor
              /\ stored.op = "adaptor_functor" =>
                    stored.functor_.op \notin Adaptor \cup {"function"}

\* Every stack of adaptors passes on the arguments, and returns, what the
\* documentation of each of them says. (bind.h:44-51, hide.h:43-48)
CallsAsDocumented == Invoke(functor, Arguments(arity)) = meaning

\* A slot watches the trackable objects that its functor refers to: no fewer,
\* which would leave a dangling reference, and no more. (bind.h:85-87)
WatchesItsObjects == Visit(functor) = watched

=============================================================================
