---------------------------- MODULE EventGenerics ----------------------------
(* Types, lifetimes and the generic parameters of events:                    *)
(* src/macros/src/parser/lifetimes.rs and the generics of parser/mod.rs.     *)
(*                                                                           *)
(* A type is [name, uses, args, mutable, elided]: the parameters and         *)
(* lifetimes free in it, whether it is a mutable reference and whether a     *)
(* reference in it has no lifetime.  Parameters are [kind, name, bounds],    *)
(* each bound the set of names it uses; a predicate of a where clause is     *)
(* [uses, bounds].                                                           *)
EXTENDS SequencesExt, Selections

CONSTANT Lifetime    \* The names of lifetimes; every other name is a type or a constant.

\* A definition mentions finitely many lifetimes.
ASSUME LifetimeAssumption == IsFiniteSet(Lifetime)

\* Lifetimes::from_type: what is bound inside the type and 'static do not count.
LifetimesOf(type) == type.uses \intersect Lifetime

UsesParam(type, param)      == param.name \in type.uses
UsesGenerics(type, G)       == \E i \in DOMAIN G.params : UsesParam(type, G.params[i])
OfKind(G, kinds)            == Those(G.params, {i \in DOMAIN G.params : G.params[i].kind \in kinds})
Names(params)               == {params[i].name : i \in DOMAIN params}
NoGenerics                  == [params |-> << >>, predicates |-> {}]

\* What rustc asks of declared parameters: lifetimes come first, and bounds and
\* predicates mention declared ones.
Declared(G) ==
    /\ DOMAIN G = {"params", "predicates"}
    /\ G.params \in Seq(Range(G.params))
    /\ \A i \in DOMAIN G.params :
         /\ DOMAIN G.params[i] = {"kind", "name", "bounds"}
         /\ G.params[i].kind \in {"lifetime", "type", "const"}
         /\ G.params[i].kind = "lifetime" <=> G.params[i].name \in Lifetime
         /\ G.params[i].kind = "lifetime" => \A j \in 1..(i - 1) : G.params[j].kind = "lifetime"
         /\ (UNION G.params[i].bounds) \intersect Lifetime \subseteq Names(G.params)
    /\ \A p \in G.predicates :
         /\ DOMAIN p = {"uses", "bounds"}
         /\ (p.uses \union UNION p.bounds) \intersect Lifetime \subseteq Names(G.params)

\* Parameters for lifetimes that are not declared, behind those that are.
WithLifetimes(G, lifetimes) ==
    LET declared == OfKind(G, {"lifetime"})
        missing  == SetToSeq(lifetimes \ Names(declared))
        added    == [i \in DOMAIN missing |->
                        [kind |-> "lifetime", name |-> missing[i], bounds |-> {}]]
    IN  IF missing = << >> THEN G
        ELSE [G EXCEPT !.params = declared \o added \o OfKind(G, {"type", "const"})]

\* Slip: bounds and predicates stay behind.
FilterParams(G, declared, kept) ==
    [G EXCEPT !.params = SelectSeq(@, LAMBDA p : p.kind # "lifetime" \/ p.name \in kept)]

\* filter_event_generic_lifetimes: the declared lifetimes that are not kept go,
\* with every bound and predicate that mentions one.
FilterLifetimes(G, declared, kept) ==
    LET omitted   == Names(OfKind(declared, {"lifetime"})) \ kept
        clean(bs) == {b \in bs : b \intersect omitted = {}}
        stays(p)  == p.kind # "lifetime" \/ p.name \in kept
        params    == Those(G.params, {i \in DOMAIN G.params : stays(G.params[i])})
    IN  IF omitted = {} THEN G
        ELSE [params |-> [i \in DOMAIN params |-> [params[i] EXCEPT !.bounds = clean(@)]],
              predicates |->
                 {[p EXCEPT !.bounds = clean(@)] :
                    p \in {q \in G.predicates : q.uses \intersect omitted = {} /\ clean(q.bounds) # {}}}]

\* completion_generics_with_lifetimes; an event without data is << >>.
CompletionGenerics(G, lifetimes, type) ==
    IF type # << >> /\ UsesGenerics(type[1], G)
    THEN FilterLifetimes(WithLifetimes(G, lifetimes), G, lifetimes)
    ELSE WithLifetimes(NoGenerics, lifetimes)

\* callback_generics_with_lifetimes: the context of the callbacks counts too.
CallbackGenerics(G, context, lifetimes, type) ==
    LET contextual == context # << >> /\ UsesGenerics(context[1], G)
        kept == lifetimes \union
                IF contextual
                THEN LifetimesOf(context[1]) \intersect Names(OfKind(G, {"lifetime"}))
                ELSE {}
    IN  IF contextual THEN FilterLifetimes(WithLifetimes(G, kept), G, kept)
        ELSE CompletionGenerics(G, lifetimes, type)

-----------------------------------------------------------------------------
(* What ParsedStateMachine::new asks of the parameters.                      *)

\* Some parameter among kinds that type does not use.
Missing(type, G, kinds) ==
    \E i \in DOMAIN G.params : G.params[i].kind \in kinds /\ ~UsesParam(type, G.params[i])

\* An event family names every type and constant, or none if it is not typed.
Incomplete(event, G) ==
    /\ event.data # << >>
    /\ event.external \/ UsesGenerics(event.data[1], G)
    /\ Missing(event.data[1], G, {"type", "const"})

GenericFault(rows, G, context) ==
    LET types    == {t \in UNION {{<<r.from.data, r.to.data>>[k] : k \in 1..2} : r \in rows} : t # << >>}
        payloads == {r.event.data[1] : r \in {q \in rows : q.event.data # << >>}}
        inferred == OfKind(G, {"type", "const"})
        queues(r) == r.actions.defer \/ r.actions.process # << >>
        mutable(e) == e.data # << >> /\ e.data[1].mutable
        origin(r) ==
            \/ mutable(r.event)
            \/ ~r.event.wildcard /\ \E q \in rows :
                 q.event.external /\ q.event.ident = r.event.ident /\ mutable(q.event)
    IN  IF G.params # << >> /\ \E r \in rows : queues(r)
        THEN "generic events cannot be queued"
        ELSE IF \E t \in types, i \in DOMAIN inferred : UsesParam(t[1], inferred[i])
        THEN "stored state data cannot use an event parameter"
        ELSE IF \E r \in rows : r.event.kind = "exception" /\ r.event.data # << >>
                               /\ UsesGenerics(r.event.data[1], G)
        THEN "exception payloads cannot use an event parameter"
        ELSE IF \E r \in rows : Incomplete(r.event, G)
        THEN "generic event must use every declared parameter"
        ELSE IF \E i \in DOMAIN G.params : \A t \in payloads : ~UsesParam(t, G.params[i])
        THEN "declared parameter must be used by an event"
        ELSE IF context # << >> /\ UsesGenerics(context[1], G)
                /\ Missing(context[1], G, {"type", "const"})
        THEN "a generic context must use every declared parameter"
        ELSE IF \E r \in rows : r.event.kind = "completion" /\ origin(r)
        THEN "Completion origin data cannot be a mutable reference."
        ELSE "none"
=============================================================================
