----------------------------- MODULE SysPingEach -----------------------------
(***************************************************************************)
(* sysclient_pingEach: the replies to a ping are decoded into a list of    *)
(* pages, each page moves into a walk of its own, and the walks are run and*)
(* destroyed by the application.  Any step may fail halfway.  Walks share  *)
(* nothing, so one of them (the first) is run and the others are kept.     *)
(***************************************************************************)
EXTENDS SysWalk

CONSTANT Replies        \* how many servers answered the ping

ASSUME PingAssumption == Replies \in Nat \ {0}

VARIABLES
  phase,   \* "decode", "adopt", "ready", "failed", "destroyed"
  at,      \* index of the loop
  pages,   \* indexes whose slot of the page list holds a page
  walks,   \* indexes whose slot of the walk list holds a walk
  frees    \* history: how often a page was destroyed, but for runs

pingVars == <<phase, at, pages, walks, frees>>
allVars  == <<sysVars, pingVars>>

PingInit ==
  /\ WalkInit
  /\ phase = IF mode = "run" THEN "decode" ELSE "ready"
  /\ at = 1 /\ pages = {} /\ walks = {}
  /\ frees = [k \in 1..Replies |-> 0]

\* sysclient_freeList of pages, or of walks: a walk that has a page frees it.
FreedIn(set) == [k \in 1..Replies |-> frees[k] + (IF k \in set THEN 1 ELSE 0)]

HasPage(k) == k \in walks /\ (k = 1 => first # NoPage)

\* The next reply is decoded; after the last, sysclient_ping returns.
Decode ==
  /\ phase = "decode" /\ at <= Replies
  /\ pages' = pages \cup {at} /\ at' = at + 1
  /\ UNCHANGED <<sysVars, phase, walks, frees>>

Decoded ==
  /\ phase = "decode" /\ at = Replies + 1
  /\ phase' = "adopt" /\ at' = 1
  /\ UNCHANGED <<sysVars, pages, walks, frees>>

\* One malformed reply, and the ping fails as a whole.
DecodeFails ==
  /\ phase = "decode" /\ at <= Replies
  /\ phase' = "failed" /\ frees' = FreedIn(pages) /\ pages' = {}
  /\ UNCHANGED <<sysVars, at, walks>>

\* Fault: the page stays in the list as well.
AdoptKeepsSlot ==
  /\ phase = "adopt" /\ at <= Replies
  /\ walks' = walks \cup {at} /\ at' = at + 1
  /\ IF at = 1 THEN NewWalk ELSE UNCHANGED sysVars
  /\ UNCHANGED <<phase, pages, frees>>

Adopt ==
  /\ phase = "adopt" /\ at <= Replies
  /\ walks' = walks \cup {at} /\ pages' = pages \ {at} /\ at' = at + 1
  /\ IF at = 1 THEN NewWalk ELSE UNCHANGED sysVars
  /\ UNCHANGED <<phase, frees>>

\* No memory for the walks or for one of them, or a reply without a server ID:
\* what is left of the pages is destroyed, then the walks there are.
AdoptFails ==
  /\ phase = "adopt" /\ at <= Replies
  /\ phase' = "failed"
  /\ frees' = FreedIn(pages \cup {k \in walks : HasPage(k)})
  /\ pages' = {} /\ walks' = {}
  /\ UNCHANGED <<sysVars, at>>

Adopted ==
  /\ phase = "adopt" /\ at = Replies + 1
  /\ phase' = "ready" /\ frees' = FreedIn(pages) /\ pages' = {}
  /\ UNCHANGED <<sysVars, at, walks>>

Run ==
  /\ phase = "ready" /\ WalkStep
  /\ UNCHANGED pingVars

\* sysclient_walkDestroy of every walk of the list.
Destroy ==
  /\ phase = "ready" /\ pc = "idle" /\ mode = "run"
  /\ phase' = "destroyed"
  /\ frees' = FreedIn({k \in walks : HasPage(k)}) /\ walks' = {}
  /\ UNCHANGED <<sysVars, at, pages>>

Others == (Tick \/ ServerChanges) /\ UNCHANGED pingVars

\* The application is done with a walk, or has none.
Stopped ==
  /\ phase \in {"ready", "failed", "destroyed"} /\ pc = "idle"
  /\ UNCHANGED allVars

PingNext ==
  \/ Decode \/ Decoded \/ DecodeFails
  \/ Adopt \/ AdoptFails \/ Adopted
  \/ Run \/ Destroy \/ Others \/ Stopped

PingSpec ==
  /\ PingInit /\ [][PingNext]_allVars
  /\ WF_allVars(phase = "ready" /\ CallStep /\ UNCHANGED pingVars)

\* A page of the ping has one owner, the list or a walk, or is gone and was
\* destroyed once, on every path out of the ping and out of the walk.
OneOwner ==
  \A k \in 1..Replies :
    LET owners == Cardinality({x \in {"list", "walk"} :
                       IF x = "list" THEN k \in pages ELSE HasPage(k)})
        gone   == frees[k] + (IF k = 1 THEN firstFreed ELSE 0)
        made   == k \in pages \cup walks \/ gone > 0
    IN made => owners + gone = 1
=============================================================================
