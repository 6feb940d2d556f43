------------------------------- MODULE MCBuilder -------------------------------
EXTENDS BuilderTurn, TLC

\* One node of each kind; an instance uses some of them.
CONSTANTS app, hook, man, wr, rd, ai

CONSTANTS t1, t2, c1, c2

Catalog ==
    app :> "app_trigger" @@ hook :> "listen" @@ man :> "manual" @@ wr :> "write" @@ rd :> "read" @@ ai :> "ai"

KindOf == [n \in Node |-> Catalog[n]]

Ready == [f |-> CHOOSE f \in Field : TRUE, key |-> NoKey]

\* The workflow of the nodes S, all filled in, with connections E.
Built(S, E) == [cfg |-> [n \in Node |-> IF n \in S THEN Ready ELSE Gone], edges |-> E]

Alone(n) == Built({n}, {})

Chain(m, n) == Built({m, n}, {<<m, n>>})

\* A write node alone, and behind an app trigger that may be skipped.
StartWrite == {Alone(wr)}

StartChain == {Chain(man, rd)}
StartModel == {Alone(man), Chain(man, ai)}
StartBoth == {Alone(wr), Chain(app, wr), Chain(hook, rd)}

\* The user fills in what he edits.
TypedReady == {c \in Config : c.f # Blank}

\* He fills it in otherwise than it was.
TypedOther == TypedReady \ {Ready}

\* Turns differ in nothing but their messages, the slots of a turn in nothing at all.
Interchangeable == Permutations(Turn) \cup Permutations(Slot)
================================================================================
