------------------------ MODULE ProjectRegistryProofs ------------------------
(***************************************************************************)
(* What the registry keeps true for every number of calls, roots and        *)
(* restarts and for every cap: seats and their builders, leases and their    *)
(* counts, transient stores and theirs, what a finished shutdown leaves, and *)
(* who may touch a root's storage beneath its guard.                         *)
(*                                                                          *)
(* A step moves one call, and wakes others at most.  So for each layer of    *)
(* the invariant it is enough to look at the call that moves.                *)
(***************************************************************************)
EXTENDS ProjectRegistry, FiniteSetTheorems, TLAPS

----------------------------------------------------------------------------
(* The inductive invariant.                                                 *)

\* A call that holds no guard and has none in hand.
Unguarded == {"start", "reserve", "joining", "pin", "sweeping", "done"}

Building == {"replaced", "construct", "building", "built", "discarding"}
Leasing  == {"sweeping", "sweep", "swept", "leased"}
Counting == {"opening", "opened", "late"}

\* A call on its way to a slot that it may have to build.
Admission == {"reserve", "joining", "gap", "waiting", "woken", "replace"}

\* A call whose slot was published: it leases some slot, or has returned.
Published == Leasing \cup {"done"}

\* A call between asking the storage of its root to open and closing it again.
Locked == {"building", "built", "discarding"} \cup Counting \cup {"using"}

\* A call that took care that no slot serves its root, or is about to.
Cold == {"emptied", "transient", "using"} \cup Counting

Points == Unguarded \cup Guarded \cup Teardowns \cup Building \cup Leasing
              \cup Locked \cup {"waiting", "woken", "transient"}

CallState == [at     : Points,
              op     : CallKinds \cup {None},
              root   : Roots \cup {None},
              guard  : (Roots \X Nat) \cup {None},
              held   : BOOLEAN,
              slot   : Calls \cup {None},
              victim : Roots \cup {None},
              out    : Calls \cup {None},
              sweep  : SUBSET Roots]

TypeOK ==
    /\ slots \in [Roots -> Calls \cup {None}] /\ seats \in SUBSET Roots
    /\ refs \in [Calls -> Nat]
    /\ transients \in SUBSET Calls /\ pending \in Nat /\ open \in SUBSET Calls
    /\ minted \in [Roots -> Nat]
    /\ shutting \in BOOLEAN /\ complete \in BOOLEAN
    /\ closer \in {"idle", "draining"} /\ life \in Nat \ {0}
    /\ call \in [Calls -> CallState]

\* The root whose storage a call is at.
Target(c) == IF call[c].at \in {"replace", "replaced", "sweep", "swept"}
             THEN call[c].victim ELSE call[c].root

\* The locals a call has at each of its control points.
LocalOK(c) ==
    /\ call[c].at \in Unguarded => call[c].guard = None /\ ~call[c].held
    /\ call[c].at \notin {"start", "done"} => Target(c) \in Roots /\ call[c].root \in Roots
    /\ call[c].at \in Cold \cup Teardowns \cup Locked => call[c].held
    /\ call[c].slot # None <=> call[c].at \in Leasing
    /\ call[c].at \in Admission => call[c].op # "store"
    /\ call[c].out # None <=> call[c].at \in Teardowns

Locals == \A c \in Calls : LocalOK(c)

\* Every construction has its seat and every seat its one construction, of a
\* root without a slot.
Warm == {r \in Roots : slots[r] # None}

SeatsOwned ==
    /\ \A c \in Calls : call[c].at \in Building => call[c].root \in seats
    /\ \A c, d \in Calls : /\ call[c].at \in Building /\ call[d].at \in Building
                           /\ call[c].root = call[d].root
                           => c = d
    /\ \A r \in seats : \E c \in Calls : call[c].at \in Building /\ call[c].root = r
    /\ \A r \in seats : slots[r] = None

WithinCap ==
    /\ IsFiniteSet(Warm) /\ IsFiniteSet(seats)
    /\ Cap > 0 => Cardinality(Warm) + Cardinality(seats) <= Cap

\* A slot counts those that lease it.  Its constructor made it and went on; it is
\* another's to tear down once it has left the registry and nobody leases it.
Lessees(s) == {c \in Calls : call[c].slot = s}

LeasesCounted ==
    \A s \in Calls : IsFiniteSet(Lessees(s)) /\ refs[s] = Cardinality(Lessees(s))

SlotsPublished ==
    /\ \A r \in Roots : slots[r] # None =>
           call[slots[r]].root = r /\ call[slots[r]].at \in Published
    /\ \A c \in Calls : call[c].slot # None => call[call[c].slot].at \in Published
    /\ \A c \in Calls : call[c].out # None =>
           /\ call[call[c].out].at \in Published /\ refs[call[c].out] = 0
           /\ \A r \in Roots : slots[r] # call[c].out
    /\ \A c \in Calls : call[c].at \in Teardowns => call[call[c].out].root = Target(c)

\* A transient store is counted while it is made and listed while it is used.
Makers == {c \in Calls : call[c].at \in Counting}

TransientsCounted ==
    /\ transients = {c \in Calls : call[c].at = "using"}
    /\ IsFiniteSet(Makers) /\ pending = Cardinality(Makers)

\* Nothing is left once a shutdown reports completion, and nothing comes.
ShutdownFinal == complete => shutting /\ Drained(slots, seats, transients, pending)

\* Guards exclude each other, whatever life minted them.
GuardsExclude ==
    \A c, d \in Calls : /\ call[c].held /\ call[d].held
                        /\ call[c].guard = call[d].guard /\ call[c].guard # None
                        => c = d

\* In the first life a root has one guard.  Whoever is at a root's storage holds
\* it, and who holds a root without a guard came after everybody else left.
GuardsHeld ==
    life = 1 =>
        /\ \A r \in Roots : minted[r] \in {0, 1}
        /\ \A c \in Calls : call[c].guard # None => /\ call[c].guard = <<Target(c), 1>>
                                                    /\ ~shutting => minted[Target(c)] = 1
        /\ \A c \in Calls : call[c].at \in Locked =>
               call[c].guard # None /\ minted[call[c].root] = 1
        /\ \A c \in Calls : call[c].held /\ call[c].guard = None =>
               /\ shutting
               /\ \A d \in Calls : call[d].at \in Locked => call[d].root # Target(c)
        /\ \A c \in Calls : call[c].at \in Cold => slots[call[c].root] = None

RegistryInv ==
    /\ TypeOK /\ Locals /\ SeatsOwned /\ WithinCap /\ LeasesCounted /\ SlotsPublished
    /\ TransientsCounted /\ ShutdownFinal /\ GuardsExclude /\ GuardsHeld

----------------------------------------------------------------------------
(* How a step moves calls.                                                  *)

\* What a call that does not move itself keeps: a wake-up takes a joiner back to
\* its loop and a waiter out of its wait.
Kept(d) ==
    /\ call'[d].op = call[d].op
    /\ call'[d].root = call[d].root /\ call'[d].guard = call[d].guard
    /\ call'[d].held = call[d].held /\ call'[d].slot = call[d].slot
    /\ call'[d].victim = call[d].victim /\ call'[d].out = call[d].out
    /\ \/ call'[d].at = call[d].at
       \/ call[d].at = "joining" /\ call'[d].at = "reserve"
       \/ call[d].at = "waiting" /\ call'[d].at = "woken"

\* Only call c moves, to point p and with these locals.
Moves(c, p, guard, held, slot, victim, out) ==
    /\ call' \in [Calls -> CallState]
    /\ \A d \in Calls \ {c} : Kept(d)
    /\ call'[c].op = call[c].op \/ p = "done"
    /\ call'[c].at = p /\ call'[c].root = call[c].root
    /\ call'[c].guard = guard /\ call'[c].held = held
    /\ call'[c].slot = slot /\ call'[c].victim = victim /\ call'[c].out = out

\* One call changes and the others are left as they are.
LEMMA OneMoves ==
  ASSUME TypeOK, NEW c \in Calls, NEW f \in CallState,
         f.op = call[c].op \/ f.at = "done", f.root = call[c].root,
         call' = [call EXCEPT ![c] = f]
  PROVE  Moves(c, f.at, f.guard, f.held, f.slot, f.victim, f.out)
  BY DEF TypeOK, Moves, Kept

\* The same when it wakes the others, unless it waits itself.
LEMMA OneMovesAndWakes ==
  ASSUME TypeOK, NEW c \in Calls, NEW f \in CallState,
         f.op = call[c].op \/ f.at = "done", f.root = call[c].root,
         f.at \notin {"joining", "waiting"},
         call' = Notified([call EXCEPT ![c] = f])
  PROVE  Moves(c, f.at, f.guard, f.held, f.slot, f.victim, f.out)
  <1> DEFINE g == [call EXCEPT ![c] = f]
  <1>1. g \in [Calls -> CallState] /\ g[c] = f /\ \A d \in Calls \ {c} : g[d] = call[d]
    BY DEF TypeOK
  <1> HIDE DEF g
  <1>2. ASSUME NEW d \in Calls
        PROVE  /\ call'[d] \in CallState /\ call'[d].op = g[d].op
               /\ call'[d].root = g[d].root /\ call'[d].guard = g[d].guard
               /\ call'[d].held = g[d].held /\ call'[d].slot = g[d].slot
               /\ call'[d].victim = g[d].victim /\ call'[d].out = g[d].out
               /\ \/ call'[d].at = g[d].at
                  \/ g[d].at = "joining" /\ call'[d].at = "reserve"
                  \/ g[d].at = "waiting" /\ call'[d].at = "woken"
    <2>1. call'[d] = CASE g[d].at = "joining" -> [g[d] EXCEPT !.at = "reserve"]
                       [] g[d].at = "waiting" -> [g[d] EXCEPT !.at = "woken"]
                       [] OTHER -> g[d]
      BY DEF g, Notified
    <2>2. g[d] \in CallState
      BY <1>1
    <2>3. CASE g[d].at = "joining"
      <3>1. call'[d] = [g[d] EXCEPT !.at = "reserve"]
        BY <2>1, <2>3
      <3>2. "reserve" \in Points
        BY DEF Points, Unguarded
      <3> QED BY <2>2, <2>3, <3>1, <3>2 DEF CallState
    <2>4. CASE g[d].at = "waiting"
      <3>1. call'[d] = [g[d] EXCEPT !.at = "woken"]
        BY <2>1, <2>4
      <3>2. "woken" \in Points
        BY DEF Points
      <3> QED BY <2>2, <2>4, <3>1, <3>2 DEF CallState
    <2>5. CASE g[d].at \notin {"joining", "waiting"}
      BY <2>1, <2>2, <2>5
    <2> QED BY <2>3, <2>4, <2>5
  <1>3. call' \in [Calls -> CallState]
    <2>1. call' = [d \in Calls |-> call'[d]]
      BY DEF Notified
    <2> QED BY <1>2, <2>1
  <1>4. ASSUME NEW d \in Calls \ {c}
        PROVE  Kept(d)
    <2>1. d \in Calls /\ g[d] = call[d]
      BY <1>1
    <2>2. /\ call'[d].op = g[d].op
          /\ call'[d].root = g[d].root /\ call'[d].guard = g[d].guard
          /\ call'[d].held = g[d].held /\ call'[d].slot = g[d].slot
          /\ call'[d].victim = g[d].victim /\ call'[d].out = g[d].out
      BY <1>2, <2>1
    <2>3. \/ call'[d].at = g[d].at
          \/ g[d].at = "joining" /\ call'[d].at = "reserve"
          \/ g[d].at = "waiting" /\ call'[d].at = "woken"
      BY <1>2, <2>1
    <2> QED BY <2>1, <2>2, <2>3 DEF Kept
  <1>5. /\ call'[c].op = f.op /\ call'[c].at = f.at /\ call'[c].root = f.root /\ call'[c].guard = f.guard
        /\ call'[c].held = f.held /\ call'[c].slot = f.slot
        /\ call'[c].victim = f.victim /\ call'[c].out = f.out
    BY <1>1, <1>2
  <1> QED BY <1>3, <1>4, <1>5 DEF Moves

\* The moves the actions are made of: on to a point with the locals kept, ...
LEMMA GotoMoves ==
  ASSUME TypeOK, NEW c \in Calls, NEW p \in Points, call' = Goto(c, p)
  PROVE  Moves(c, p, call[c].guard, call[c].held, call[c].slot, call[c].victim, call[c].out)
  <1> DEFINE f == [call[c] EXCEPT !.at = p]
  <1>1. /\ f \in CallState /\ f.op = call[c].op /\ f.at = p /\ f.root = call[c].root /\ f.guard = call[c].guard
        /\ f.held = call[c].held /\ f.slot = call[c].slot
        /\ f.victim = call[c].victim /\ f.out = call[c].out
    BY DEF TypeOK, CallState
  <1>2. call' = [call EXCEPT ![c] = f]
    BY DEF Goto
  <1> HIDE DEF f
  <1> QED BY <1>1, <1>2, OneMoves

\* ... on without a guard, ...
LEMMA LeaveMoves ==
  ASSUME TypeOK, NEW c \in Calls, NEW p \in Points, call' = Leave(c, p)
  PROVE  Moves(c, p, None, FALSE, call[c].slot, None, None)
  <1> DEFINE f == [call[c] EXCEPT !.at = p, !.guard = None, !.held = FALSE,
                                  !.victim = None, !.out = None]
  <1>1. /\ f \in CallState /\ f.op = call[c].op /\ f.at = p /\ f.root = call[c].root /\ f.guard = None
        /\ f.held = FALSE /\ f.slot = call[c].slot /\ f.victim = None /\ f.out = None
    BY DEF TypeOK, CallState
  <1>2. call' = [call EXCEPT ![c] = f]
    BY DEF Leave
  <1> HIDE DEF f
  <1> QED BY <1>1, <1>2, OneMoves

\* ... on once the slot it took out is closed, ...
LEMMA EmptiedMoves ==
  ASSUME TypeOK, NEW c \in Calls,
         call' = [Goto(c, "transient") EXCEPT ![c].out = None]
  PROVE  Moves(c, "transient", call[c].guard, call[c].held, call[c].slot, call[c].victim, None)
  <1> DEFINE g == [call[c] EXCEPT !.at = "transient"]
             f == [g EXCEPT !.out = None]
  <1>1. call[c] \in CallState /\ call \in [Calls -> CallState] /\ "transient" \in Points
    BY DEF TypeOK, Points
  <1>2. /\ g \in CallState /\ g.op = call[c].op /\ g.at = "transient"
        /\ g.root = call[c].root /\ g.guard = call[c].guard /\ g.held = call[c].held
        /\ g.slot = call[c].slot /\ g.victim = call[c].victim
    BY <1>1 DEF CallState
  <1>3. call' = [call EXCEPT ![c] = f]
    <2>1. Goto(c, "transient") = [call EXCEPT ![c] = g]
      BY DEF Goto
    <2>2. [call EXCEPT ![c] = g][c] = g
      BY <1>1
    <2>3. call' = [[call EXCEPT ![c] = g] EXCEPT ![c] = f]
      BY <2>1, <2>2
    <2> HIDE DEF f, g
    <2> QED BY <1>1, <2>3
  <1> HIDE DEF g
  <1>4. /\ f \in CallState /\ f.op = call[c].op /\ f.at = "transient"
        /\ f.root = call[c].root /\ f.guard = call[c].guard /\ f.held = call[c].held
        /\ f.slot = call[c].slot /\ f.victim = call[c].victim /\ f.out = None
    BY <1>2 DEF CallState
  <1> HIDE DEF f
  <1> QED BY <1>3, <1>4, OneMoves

\* ... away without a guard but with a lease, ...
LEMMA LeaveLeasing ==
  ASSUME TypeOK, NEW c \in Calls, NEW s \in Calls
  PROVE  \E f \in CallState :
           /\ [Leave(c, "sweeping") EXCEPT ![c].slot = s] = [call EXCEPT ![c] = f]
           /\ f.op = call[c].op /\ f.at = "sweeping" /\ f.root = call[c].root
           /\ f.guard = None /\ f.held = FALSE /\ f.slot = s
           /\ f.victim = None /\ f.out = None
  <1> DEFINE g == [call[c] EXCEPT !.at = "sweeping", !.guard = None, !.held = FALSE,
                                  !.victim = None, !.out = None]
             f == [g EXCEPT !.slot = s]
  <1>1. call[c] \in CallState /\ call \in [Calls -> CallState] /\ "sweeping" \in Points
    BY DEF TypeOK, Points, Unguarded
  <1>2. /\ g \in CallState /\ g.op = call[c].op /\ g.at = "sweeping"
        /\ g.root = call[c].root /\ g.guard = None
        /\ g.held = FALSE /\ g.victim = None /\ g.out = None
    BY <1>1 DEF CallState
  <1>3. [Leave(c, "sweeping") EXCEPT ![c].slot = s] = [call EXCEPT ![c] = f]
    <2>1. Leave(c, "sweeping") = [call EXCEPT ![c] = g]
      BY DEF Leave
    <2>2. [call EXCEPT ![c] = g][c] = g
      BY <1>1
    <2>3. [Leave(c, "sweeping") EXCEPT ![c].slot = s]
            = [[call EXCEPT ![c] = g] EXCEPT ![c] = f]
      BY <2>1, <2>2
    <2> HIDE DEF f, g
    <2> QED BY <1>1, <2>3
  <1> HIDE DEF g
  <1>4. /\ f \in CallState /\ f.op = call[c].op /\ f.at = "sweeping"
        /\ f.root = call[c].root /\ f.guard = None
        /\ f.held = FALSE /\ f.slot = s /\ f.victim = None /\ f.out = None
    BY <1>2 DEF CallState
  <1> HIDE DEF f
  <1> QED BY <1>3, <1>4

\* ... and back to the caller, waking others or not.
LEMMA ReturnMoves ==
  ASSUME TypeOK, NEW c \in Calls, call' = Return(c) \/ call' = Notified(Return(c))
  PROVE  Moves(c, "done", None, FALSE, None, None, None)
  <1> DEFINE f == [NewCall EXCEPT !.at = "done", !.root = call[c].root]
  <1>1. /\ f \in CallState /\ f.at = "done" /\ f.root = call[c].root /\ f.guard = None
        /\ f.held = FALSE /\ f.slot = None /\ f.victim = None /\ f.out = None
    BY DEF TypeOK, CallState, NewCall, Points, Unguarded
  <1>2. Return(c) = [call EXCEPT ![c] = f]
    BY DEF Return
  <1> HIDE DEF f
  <1>3. CASE call' = Return(c)
    BY <1>1, <1>2, <1>3, OneMoves
  <1>4. CASE call' = Notified(Return(c))
    BY <1>1, <1>2, <1>4, OneMovesAndWakes
  <1> QED BY <1>3, <1>4

----------------------------------------------------------------------------
(* The layers of the invariant, seen from the call that moves.              *)

\* The points a wake-up joins are told apart by no layer.
LEMMA KeptPoint ==
  ASSUME NEW d, Kept(d)
  PROVE  /\ \A P \in {Unguarded, Admission, Building, Leasing, Published, Locked, Cold, Counting, Teardowns} :
                call'[d].at \in P <=> call[d].at \in P
         /\ call'[d].at = "using" <=> call[d].at = "using"
         /\ Target(d)' = Target(d)
  BY DEF Kept, Unguarded, Admission, Building, Leasing, Published, Locked, Cold, Counting, Teardowns, Target

\* Locals: only those of the call that moves are in question.
LEMMA LocalKept ==
  ASSUME NEW d, LocalOK(d), Kept(d)
  PROVE  LocalOK(d)'
  <1>1. call[d].at \in {"start", "done"} <=> call'[d].at \in {"start", "done"}
    BY DEF Kept
  <1> QED BY <1>1, KeptPoint DEF LocalOK, Kept

\* One call moves, and the others' locals stay right.
LEMMA LocalsMove ==
  ASSUME Locals, NEW c \in Calls, \A d \in Calls \ {c} : Kept(d), LocalOK(c)'
  PROVE  Locals'
  BY LocalKept DEF Locals

\* Seats: the call neither starts nor ends a construction, ...
LEMMA SeatsStay ==
  ASSUME SeatsOwned, NEW c \in Calls, \A d \in Calls \ {c} : Kept(d),
         call'[c].at \in Building <=> call[c].at \in Building,
         call[c].at \in Building => call'[c].root = call[c].root,
         seats' = seats, \A r \in seats : slots'[r] = None
  PROVE  SeatsOwned'
  <1>1. \A d \in Calls : call'[d].at \in Building <=> call[d].at \in Building
    BY KeptPoint
  <1>2. \A d \in Calls : call[d].at \in Building => call'[d].root = call[d].root
    BY DEF Kept
  <1> QED BY <1>1, <1>2 DEF SeatsOwned

\* ... it takes the seat of its root, ...
LEMMA SeatsTaken ==
  ASSUME SeatsOwned, NEW c \in Calls, \A d \in Calls \ {c} : Kept(d),
         call'[c].at \in Building, call[c].at \notin Building,
         call'[c].root = call[c].root, call[c].root \notin seats,
         seats' = seats \cup {call[c].root}, \A r \in seats' : slots'[r] = None
  PROVE  SeatsOwned'
  <1>1. \A d \in Calls : d # c => (call'[d].at \in Building <=> call[d].at \in Building)
    BY KeptPoint
  <1>2. \A d \in Calls : call'[d].root = call[d].root
    BY DEF Kept
  <1> QED BY <1>1, <1>2 DEF SeatsOwned

\* ... or it gives its seat back.
LEMMA SeatsGiven ==
  ASSUME SeatsOwned, NEW c \in Calls, \A d \in Calls \ {c} : Kept(d),
         call[c].at \in Building, call'[c].at \notin Building,
         seats' = seats \ {call[c].root}, \A r \in seats' : slots'[r] = None
  PROVE  SeatsOwned'
  <1>1. \A d \in Calls : d # c => (call'[d].at \in Building <=> call[d].at \in Building)
    BY KeptPoint
  <1>2. \A d \in Calls : d # c => call'[d].root = call[d].root
    BY DEF Kept
  <1> QED BY <1>1, <1>2 DEF SeatsOwned

\* Counting one more, or one less.
LEMMA OneMore ==
  ASSUME NEW S, IsFiniteSet(S), NEW x
  PROVE  /\ IsFiniteSet(S \cup {x})
         /\ Cardinality(S) \in Nat /\ Cardinality(S \cup {x}) \in Nat
         /\ Cardinality(S \cup {x}) <= Cardinality(S) + 1
         /\ x \notin S => Cardinality(S \cup {x}) = Cardinality(S) + 1
  <1>1. IsFiniteSet(S \cup {x})
    BY FS_AddElement
  <1>2. Cardinality(S) \in Nat /\ Cardinality(S \cup {x}) \in Nat
    BY <1>1, FS_CardinalityType
  <1>3. Cardinality(S \cup {x}) = IF x \in S THEN Cardinality(S) ELSE Cardinality(S) + 1
    BY FS_AddElement
  <1> QED BY <1>1, <1>2, <1>3

\* A finite set with a member taken out.
LEMMA OneLess ==
  ASSUME NEW S, IsFiniteSet(S), NEW x \in S
  PROVE  /\ IsFiniteSet(S \ {x})
         /\ Cardinality(S) \in Nat /\ Cardinality(S \ {x}) \in Nat
         /\ Cardinality(S \ {x}) = Cardinality(S) - 1 /\ Cardinality(S) > 0
  <1>1. IsFiniteSet(S \ {x})
    BY FS_RemoveElement
  <1>2. Cardinality(S) \in Nat /\ Cardinality(S \ {x}) \in Nat
    BY <1>1, FS_CardinalityType
  <1>3. Cardinality(S \ {x}) = IF x \in S THEN Cardinality(S) - 1 ELSE Cardinality(S)
    BY FS_RemoveElement
  <1> QED BY <1>1, <1>2, <1>3

\* The cap: slots and seats go, ...
LEMMA CapShrinks ==
  ASSUME WithinCap, Warm' \subseteq Warm, seats' \subseteq seats
  PROVE  WithinCap'
  <1>1. /\ IsFiniteSet(Warm') /\ IsFiniteSet(seats')
        /\ Cardinality(Warm') <= Cardinality(Warm)
        /\ Cardinality(seats') <= Cardinality(seats)
    BY FS_Subset DEF WithinCap
  <1>2. /\ Cardinality(Warm') \in Nat /\ Cardinality(Warm) \in Nat
        /\ Cardinality(seats') \in Nat /\ Cardinality(seats) \in Nat
    BY <1>1, FS_CardinalityType DEF WithinCap
  <1> QED BY <1>1, <1>2, RegistryAssumption DEF WithinCap

\* ... a seat is taken where there is room, ...
LEMMA CapTaken ==
  ASSUME WithinCap, NEW r, HasCapacity, Warm' = Warm, seats' = seats \cup {r}
  PROVE  WithinCap'
  <1>1. /\ IsFiniteSet(Warm') /\ IsFiniteSet(seats')
        /\ Cardinality(seats') <= Cardinality(seats) + 1
        /\ Cardinality(Warm) \in Nat /\ Cardinality(seats) \in Nat
        /\ Cardinality(seats') \in Nat
    BY OneMore, FS_CardinalityType DEF WithinCap
  <1>2. Cap > 0 => Cardinality(Warm) + Cardinality(seats) < Cap
    BY RegistryAssumption DEF HasCapacity, Warm
  <1> QED BY <1>1, <1>2, RegistryAssumption DEF WithinCap

\* ... a seat takes the place of a slot, ...
LEMMA CapSwapped ==
  ASSUME WithinCap, NEW r, NEW v \in Warm,
         Warm' = Warm \ {v}, seats' = seats \cup {r}
  PROVE  WithinCap'
  <1>1. /\ IsFiniteSet(Warm') /\ IsFiniteSet(seats')
        /\ Cardinality(Warm') = Cardinality(Warm) - 1
        /\ Cardinality(seats') <= Cardinality(seats) + 1
        /\ Cardinality(Warm) \in Nat /\ Cardinality(seats) \in Nat
        /\ Cardinality(seats') \in Nat
    BY OneMore, OneLess DEF WithinCap
  <1> QED BY <1>1, RegistryAssumption DEF WithinCap

\* ... or a slot takes the place of its seat.
LEMMA CapPublished ==
  ASSUME WithinCap, NEW r \in seats, Warm' = Warm \cup {r}, seats' = seats \ {r}
  PROVE  WithinCap'
  <1>1. /\ IsFiniteSet(Warm') /\ IsFiniteSet(seats')
        /\ Cardinality(Warm') <= Cardinality(Warm) + 1
        /\ Cardinality(seats') = Cardinality(seats) - 1
        /\ Cardinality(Warm) \in Nat /\ Cardinality(seats) \in Nat
        /\ Cardinality(Warm') \in Nat
    BY OneMore, OneLess DEF WithinCap
  <1> QED BY <1>1, RegistryAssumption DEF WithinCap

\* Leases: who leases what does not change, ...
LEMMA LeasesStay ==
  ASSUME LeasesCounted, NEW c \in Calls, \A d \in Calls \ {c} : Kept(d),
         call'[c].slot = call[c].slot, refs' = refs
  PROVE  LeasesCounted'
  <1>1. \A d \in Calls : call'[d].slot = call[d].slot
    BY DEF Kept
  <1>2. \A s \in Calls : Lessees(s)' = Lessees(s)
    BY <1>1 DEF Lessees
  <1> QED BY <1>2 DEF LeasesCounted

\* ... the call leases a slot, ...
LEMMA LeasesPinned ==
  ASSUME TypeOK, LeasesCounted, NEW c \in Calls, \A d \in Calls \ {c} : Kept(d),
         NEW s \in Calls, call[c].slot = None, call'[c].slot = s, Pin(s)
  PROVE  LeasesCounted'
  <1>1. \A d \in Calls : d # c => call'[d].slot = call[d].slot
    BY DEF Kept
  <1>2. Lessees(s)' = Lessees(s) \cup {c} /\ c \notin Lessees(s)
    BY <1>1, RegistryAssumption DEF Lessees
  <1>3. \A t \in Calls : t # s => Lessees(t)' = Lessees(t)
    BY <1>1, RegistryAssumption DEF Lessees
  <1>4. refs'[s] = refs[s] + 1 /\ \A t \in Calls : t # s => refs'[t] = refs[t]
    BY DEF Pin, TypeOK
  <1>5. IsFiniteSet(Lessees(s)') /\ refs'[s] = Cardinality(Lessees(s)')
    BY <1>2, <1>4, OneMore DEF LeasesCounted
  <1> QED BY <1>3, <1>4, <1>5 DEF LeasesCounted

\* ... or it lets its slot go.
LEMMA LeasesUnpinned ==
  ASSUME TypeOK, LeasesCounted, NEW c \in Calls, \A d \in Calls \ {c} : Kept(d),
         call[c].slot # None, call'[c].slot = None, Unpin(call[c].slot)
  PROVE  LeasesCounted'
  <1>0. PICK s \in Calls : s = call[c].slot
    BY DEF TypeOK, CallState
  <1>1. \A d \in Calls : d # c => call'[d].slot = call[d].slot
    BY DEF Kept
  <1>2. Lessees(s)' = Lessees(s) \ {c} /\ c \in Lessees(s)
    BY <1>0, <1>1, RegistryAssumption DEF Lessees
  <1>3. \A t \in Calls : t # s => Lessees(t)' = Lessees(t)
    BY <1>0, <1>1, RegistryAssumption DEF Lessees
  <1>4. /\ refs'[s] = IF refs[s] > 0 THEN refs[s] - 1 ELSE 0
        /\ \A t \in Calls : t # s => refs'[t] = refs[t]
    BY <1>0 DEF Unpin, TypeOK
  <1>5. IsFiniteSet(Lessees(s)') /\ refs'[s] = Cardinality(Lessees(s)')
    <2>1. IsFiniteSet(Lessees(s)) /\ refs[s] = Cardinality(Lessees(s))
      BY <1>2 DEF LeasesCounted
    <2>2. /\ IsFiniteSet(Lessees(s) \ {c}) /\ Cardinality(Lessees(s)) > 0
          /\ Cardinality(Lessees(s) \ {c}) = Cardinality(Lessees(s)) - 1
      BY <1>2, <2>1, OneLess
    <2> QED BY <1>2, <1>4, <2>1, <2>2
  <1> QED BY <1>3, <1>4, <1>5 DEF LeasesCounted

\* A leased slot is counted.
LEMMA LeasedIsCounted ==
  ASSUME TypeOK, LeasesCounted, NEW c \in Calls, call[c].slot # None
  PROVE  call[c].slot \in Calls /\ refs[call[c].slot] # 0
  <1>1. call[c].slot \in Calls
    BY DEF TypeOK, CallState
  <1>2. c \in Lessees(call[c].slot) /\ IsFiniteSet(Lessees(call[c].slot))
    BY <1>1 DEF Lessees, LeasesCounted
  <1>3. Cardinality(Lessees(call[c].slot)) > 0
    BY <1>2, OneLess
  <1> QED BY <1>1, <1>3 DEF LeasesCounted

\* Slots: the call keeps what it was, and leaves slots alone but for those that
\* are dropped and for its own; it leases and tears down what was published.
LEMMA SlotsMove ==
  ASSUME TypeOK, Locals, SlotsPublished, NEW c \in Calls, \A d \in Calls \ {c} : Kept(d),
         call'[c] \in CallState,
         call[c].at \in Published => call'[c].at \in Published /\ call'[c].root = call[c].root,
         \A r \in Roots : \/ slots'[r] \in {slots[r], None}
                          \/ /\ slots'[r] = c /\ r = call'[c].root
                             /\ call'[c].at \in Published /\ call[c].at \notin Published,
         call'[c].slot # None => \/ call'[c].slot = call[c].slot
                                 \/ \E r \in Roots : slots[r] = call'[c].slot
                                 \/ call'[c].slot = c /\ call'[c].at \in Published,
         \A s \in Calls : /\ refs[s] = 0 /\ call[s].at \in Published
                          /\ \A r \in Roots : slots[r] # s
                          => refs'[s] = 0,
         call'[c].out # None =>
             \/ call'[c].out = call[c].out
             \/ /\ refs'[call'[c].out] = 0
                /\ \E v \in Roots : slots[v] = call'[c].out /\ slots'[v] = None,
         call'[c].at \in Teardowns =>
             \/ /\ call[c].at \in Teardowns /\ call'[c].out = call[c].out
                /\ Target(c)' = Target(c)
             \/ Target(c)' \in Roots /\ call'[c].out = slots[Target(c)'] /\ call'[c].out # None
  PROVE  SlotsPublished'
  <1>1. \A d \in Calls : call[d].at \in Published =>
            call'[d].at \in Published /\ call'[d].root = call[d].root
    BY KeptPoint DEF Kept
  <1>2. \A d \in Calls : d # c => /\ call'[d].slot = call[d].slot /\ call'[d].out = call[d].out
                                  /\ Target(d)' = Target(d)
                                  /\ call'[d].at \in Teardowns <=> call[d].at \in Teardowns
    BY KeptPoint DEF Kept
  <1>3. \A r \in Roots : slots[r] # None =>
            slots[r] \in Calls /\ call[slots[r]].root = r /\ call[slots[r]].at \in Published
    BY DEF SlotsPublished, TypeOK
  <1>4. \A d \in Calls : call[d].slot # None =>
            call[d].slot \in Calls /\ call[call[d].slot].at \in Published
    BY DEF SlotsPublished, TypeOK, CallState
  <1>5. \A d \in Calls : call[d].out # None =>
            /\ call[d].out \in Calls /\ call[call[d].out].at \in Published
            /\ refs[call[d].out] = 0 /\ \A r \in Roots : slots[r] # call[d].out
    BY DEF SlotsPublished, TypeOK, CallState
  <1>6. ASSUME NEW r \in Roots, slots'[r] # None
        PROVE  call'[slots'[r]].root = r /\ call'[slots'[r]].at \in Published
    BY <1>1, <1>3, <1>6
  <1>7. ASSUME NEW d \in Calls, call'[d].slot # None
        PROVE  call'[call'[d].slot].at \in Published
    BY <1>1, <1>2, <1>3, <1>4, <1>7
  <1>8. ASSUME NEW d \in Calls, call'[d].out # None
        PROVE  /\ call'[call'[d].out].at \in Published /\ refs'[call'[d].out] = 0
               /\ \A r \in Roots : slots'[r] # call'[d].out
    <2>1. CASE call'[d].out = call[d].out
      <3> DEFINE s == call[d].out
      <3>1. /\ s \in Calls /\ s # None /\ call[s].at \in Published /\ refs[s] = 0
            /\ \A r \in Roots : slots[r] # s
        BY <1>5, <1>8, <2>1
      <3>2. refs'[s] = 0 /\ call'[s].at \in Published
        BY <1>1, <3>1
      <3>3. \A r \in Roots : slots'[r] # s
        BY <3>1
      <3> QED BY <2>1, <3>2, <3>3
    <2>2. CASE call'[d].out # call[d].out
      <3>1. d = c
        BY <1>2, <2>2
      <3>2. PICK v \in Roots : slots[v] = call'[c].out /\ slots'[v] = None
        BY <1>8, <2>2, <3>1
      <3>3. /\ refs'[call'[c].out] = 0 /\ call'[c].out \in Calls
            /\ call[call'[c].out].root = v /\ call[call'[c].out].at \in Published
        BY <1>3, <1>8, <2>2, <3>1, <3>2
      <3>4. ASSUME NEW r \in Roots, slots'[r] = call'[c].out
            PROVE  FALSE
        BY <1>3, <1>8, <3>1, <3>2, <3>3, <3>4
      <3> QED BY <1>1, <3>1, <3>3, <3>4
    <2> QED BY <2>1, <2>2
  <1>9. ASSUME NEW d \in Calls, call'[d].at \in Teardowns
        PROVE  call'[call'[d].out].root = Target(d)'
    <2>1. \A e \in Calls : call[e].at \in Teardowns => call[call[e].out].root = Target(e)
      BY DEF SlotsPublished
    <2>2. CASE /\ call[d].at \in Teardowns /\ call'[d].out = call[d].out
               /\ Target(d)' = Target(d)
      <3>1. call[d].out # None
        BY <2>2 DEF Locals, LocalOK
      <3> QED BY <1>1, <1>5, <2>1, <2>2, <3>1
    <2>3. CASE d = c /\ Target(c)' \in Roots /\ call'[c].out = slots[Target(c)'] /\ call'[c].out # None
      BY <1>1, <1>3, <2>3
    <2> QED BY <1>2, <1>9, <2>2, <2>3
  <1> QED BY <1>6, <1>7, <1>8, <1>9 DEF SlotsPublished

\* Transients: the call neither makes nor uses a store more or less than before, ...
LEMMA TransientsStay ==
  ASSUME TransientsCounted, NEW c \in Calls, \A d \in Calls \ {c} : Kept(d),
         call'[c].at = "using" <=> call[c].at = "using",
         call'[c].at \in Counting <=> call[c].at \in Counting,
         transients' = transients, pending' = pending
  PROVE  TransientsCounted'
  <1>1. \A d \in Calls : /\ call'[d].at = "using" <=> call[d].at = "using"
                         /\ call'[d].at \in Counting <=> call[d].at \in Counting
    BY KeptPoint
  <1>2. Makers' = Makers
    BY <1>1 DEF Makers
  <1> QED BY <1>1, <1>2 DEF TransientsCounted

\* ... it starts to make one, ...
LEMMA TransientsStarted ==
  ASSUME TransientsCounted, NEW c \in Calls, \A d \in Calls \ {c} : Kept(d),
         call[c].at = "transient", call'[c].at = "opening",
         transients' = transients, pending' = pending + 1
  PROVE  TransientsCounted'
  <1>1. \A d \in Calls : d # c => /\ call'[d].at = "using" <=> call[d].at = "using"
                                  /\ call'[d].at \in Counting <=> call[d].at \in Counting
    BY KeptPoint
  <1>2. Makers' = Makers \cup {c} /\ c \notin Makers
    BY <1>1 DEF Makers, Counting
  <1>3. IsFiniteSet(Makers \cup {c}) /\ Cardinality(Makers \cup {c}) = Cardinality(Makers) + 1
    BY <1>2, OneMore DEF TransientsCounted
  <1>4. transients' = {d \in Calls : call'[d].at = "using"}
    BY <1>1 DEF TransientsCounted
  <1> QED BY <1>2, <1>3, <1>4 DEF TransientsCounted

\* ... it has made one, ...
LEMMA TransientsMade ==
  ASSUME TransientsCounted, NEW c \in Calls, \A d \in Calls \ {c} : Kept(d),
         call[c].at \in Counting, call'[c].at \notin Counting,
         transients' = IF call'[c].at = "using" THEN transients \cup {c} ELSE transients \ {c},
         pending' = pending - 1
  PROVE  TransientsCounted'
  <1>1. \A d \in Calls : d # c => /\ call'[d].at = "using" <=> call[d].at = "using"
                                  /\ call'[d].at \in Counting <=> call[d].at \in Counting
    BY KeptPoint
  <1>2. Makers' = Makers \ {c} /\ c \in Makers
    BY <1>1 DEF Makers
  <1>3. IsFiniteSet(Makers \ {c}) /\ Cardinality(Makers \ {c}) = Cardinality(Makers) - 1
    BY <1>2, OneLess DEF TransientsCounted
  <1>4. transients' = {d \in Calls : call'[d].at = "using"}
    BY <1>1 DEF TransientsCounted
  <1> QED BY <1>2, <1>3, <1>4 DEF TransientsCounted

\* ... or it is done with one.
LEMMA TransientsEnded ==
  ASSUME TransientsCounted, NEW c \in Calls, \A d \in Calls \ {c} : Kept(d),
         call[c].at = "using", call'[c].at = "done",
         transients' = transients \ {c}, pending' = pending
  PROVE  TransientsCounted'
  <1>1. \A d \in Calls : d # c => /\ call'[d].at = "using" <=> call[d].at = "using"
                                  /\ call'[d].at \in Counting <=> call[d].at \in Counting
    BY KeptPoint
  <1>2. Makers' = Makers
    BY <1>1 DEF Makers, Counting
  <1>3. transients' = {d \in Calls : call'[d].at = "using"}
    BY <1>1 DEF TransientsCounted
  <1> QED BY <1>2, <1>3 DEF TransientsCounted

\* Whoever is at a root's storage is accounted for: a drained registry has none.
NobodyLeft == \A d \in Calls : call[d].at \notin Building \cup Counting \cup {"using"} \cup Locked

\* A registry counted empty has no call at work in it.
LEMMA DrainedHasNobody ==
  SeatsOwned /\ TransientsCounted /\ Drained(slots, seats, transients, pending) => NobodyLeft
  <1> SUFFICES ASSUME SeatsOwned, TransientsCounted,
                      Drained(slots, seats, transients, pending), NEW d \in Calls
               PROVE  call[d].at \notin Building \cup Counting \cup {"using"} \cup Locked
    BY DEF NobodyLeft
  <1>1. call[d].at \notin Building
    BY DEF SeatsOwned, Drained
  <1>2. call[d].at # "using"
    BY DEF TransientsCounted, Drained
  <1>3. call[d].at \notin Counting
    <2>1. Makers = {}
      BY FS_EmptySet DEF TransientsCounted, Drained
    <2> QED BY <2>1 DEF Makers
  <1> QED BY <1>1, <1>2, <1>3 DEF Building, Locked

\* The same of the state a step leads to.
LEMMA DrainedHasNobodyNext ==
  ASSUME SeatsOwned', TransientsCounted', Drained(slots, seats, transients, pending)'
  PROVE  \A d \in Calls : call'[d].at \notin Locked
  <1>1. NobodyLeft'
    BY DrainedHasNobody, PTL
  <1> QED BY <1>1 DEF NobodyLeft

\* What a step that may end the shutdown does to it.
LEMMA CompleteEffect ==
  ASSUME TypeOK, NEW ps, NEW ss, NEW ts, NEW n, Complete(ps, ss, ts, n)
  PROVE  \/ complete' = complete /\ minted' = minted
         \/ /\ shutting /\ Drained(ps, ss, ts, n) /\ complete' = TRUE
            /\ minted' \in [Roots -> Nat] /\ \A r \in Roots : minted'[r] = 0
  BY DEF Complete, TypeOK

\* Guards: nobody enters one.
LEMMA GuardsStay ==
  ASSUME GuardsExclude, NEW c \in Calls, \A d \in Calls \ {c} : Kept(d),
         call'[c].held /\ call'[c].guard # None =>
             call[c].held /\ call'[c].guard = call[c].guard
  PROVE  GuardsExclude'
  <1>1. \A d \in Calls : call'[d].held /\ call'[d].guard # None =>
            call[d].held /\ call'[d].guard = call[d].guard
    BY DEF Kept
  <1> QED BY <1>1 DEF GuardsExclude

\* A call at a root's storage has its root and holds what guard it has.
LEMMA ColdIsPlaced ==
  ASSUME Locals, NEW d \in Calls, call[d].at \in Cold \cup Locked
  PROVE  call[d].root \in Roots /\ call[d].held /\ Target(d) = call[d].root
  <1>1. call[d].at \notin {"start", "done", "replace", "replaced", "sweep", "swept"}
    BY DEF Cold, Locked, Counting
  <1> QED BY <1>1 DEF Locals, LocalOK, Target

\* Two calls are not at the storage of one root at once.
LEMMA OneAtStorage ==
  ASSUME Locals, GuardsExclude, GuardsHeld, life = 1, NEW c \in Calls, NEW d \in Calls,
         call[c].at \in Locked, call[d].held, Target(d) = call[c].root
  PROVE  c = d
  <1>1. call[c].held /\ Target(c) = call[c].root
    BY DEF Locals, LocalOK, Locked, Target, Counting
  <1>2. call[c].guard # None /\ call[c].guard = <<call[c].root, 1>>
    BY <1>1 DEF GuardsHeld
  <1>3. call[d].guard # None
    BY DEF GuardsHeld
  <1>4. call[d].guard = <<Target(d), 1>>
    BY <1>3 DEF GuardsHeld
  <1> QED BY <1>1, <1>2, <1>3, <1>4 DEF GuardsExclude

\* A guard a call keeps goes on to be its root's, nobody goes to a root's storage
\* without one, and a call without one leaves its root alone.
LEMMA HeldMove ==
  ASSUME GuardsHeld, NEW c \in Calls, \A d \in Calls \ {c} : Kept(d),
         life' = life, shutting' = shutting \/ shutting',
         \/ /\ minted' = minted
         \/ /\ shutting' /\ \A r \in Roots : minted'[r] = 0
            /\ \A d \in Calls : call'[d].at \notin Locked,
         call'[c].guard # None =>
             call[c].guard = call'[c].guard /\ Target(c)' = Target(c),
         call'[c].at \in Locked =>
             /\ call'[c].root = call[c].root
             /\ \/ call[c].at \in Locked /\ call'[c].guard = call[c].guard
                \/ /\ ~shutting /\ ~shutting' /\ call[c].held
                   /\ call'[c].guard = call[c].guard /\ Target(c) = call[c].root,
         call'[c].held /\ call'[c].guard = None =>
             call[c].held /\ call[c].guard = None /\ Target(c)' = Target(c),
         call'[c].at \in Cold =>
             \/ call[c].at \in Cold /\ call'[c].root = call[c].root
             \/ slots'[call'[c].root] = None,
         \A d \in Calls : call[d].at \in Cold => call[d].root \in Roots,
         \A r \in Roots : \/ slots'[r] \in {slots[r], None}
                          \/ \A d \in Calls : call[d].at \in Cold => call[d].root # r
  PROVE  GuardsHeld'
  <1> SUFFICES ASSUME life = 1
               PROVE  GuardsHeld'
    BY DEF GuardsHeld
  <1>1. \A d \in Calls : d # c =>
            /\ call'[d].guard = call[d].guard /\ call'[d].held = call[d].held
            /\ call'[d].root = call[d].root /\ Target(d)' = Target(d)
            /\ call'[d].at \in Locked <=> call[d].at \in Locked
            /\ call'[d].at \in Cold <=> call[d].at \in Cold
    BY KeptPoint DEF Kept
  <1>2. \A r \in Roots : minted'[r] \in {0, 1}
    BY DEF GuardsHeld
  <1>3. ASSUME NEW d \in Calls, call'[d].guard # None
        PROVE  /\ call'[d].guard = <<Target(d)', 1>>
               /\ ~shutting' => minted'[Target(d)'] = 1
    BY <1>1, <1>3 DEF GuardsHeld
  <1>4. ASSUME NEW d \in Calls, call'[d].at \in Locked
        PROVE  call'[d].guard # None /\ minted'[call'[d].root] = 1
    <2>1. minted' = minted
      BY <1>4
    <2>2. CASE d # c
      BY <1>1, <1>4, <2>1, <2>2 DEF GuardsHeld
    <2>3. CASE d = c
      BY <1>4, <2>1, <2>3 DEF GuardsHeld
    <2> QED BY <2>2, <2>3
  <1>5. ASSUME NEW d \in Calls, call'[d].held, call'[d].guard = None
        PROVE  /\ shutting'
               /\ \A e \in Calls : call'[e].at \in Locked => call'[e].root # Target(d)'
    <2>1. call[d].held /\ call[d].guard = None /\ Target(d)' = Target(d)
      BY <1>1, <1>5
    <2>2. shutting /\ \A e \in Calls : call[e].at \in Locked => call[e].root # Target(d)
      BY <2>1 DEF GuardsHeld
    <2>3. shutting'
      BY <2>2
    <2>4. ASSUME NEW e \in Calls, call'[e].at \in Locked
          PROVE  call'[e].root # Target(d)'
      BY <1>1, <2>1, <2>2, <2>4
    <2> QED BY <2>3, <2>4
  <1>6. ASSUME NEW d \in Calls, call'[d].at \in Cold
        PROVE  slots'[call'[d].root] = None
    <2>1. CASE call[d].at \in Cold /\ call'[d].root = call[d].root
      <3>1. slots[call[d].root] = None /\ call[d].root \in Roots
        BY <2>1 DEF GuardsHeld
      <3> QED BY <2>1, <3>1
    <2>2. CASE ~(call[d].at \in Cold /\ call'[d].root = call[d].root)
      BY <1>1, <1>6, <2>2
    <2> QED BY <2>1, <2>2
  <1> QED BY <1>2, <1>3, <1>4, <1>5, <1>6 DEF GuardsHeld

----------------------------------------------------------------------------
(* Steps that change nothing but the call that makes them, and which stores *)
(* are open: that the invariant only types.                                 *)

Quiet(c) ==
    /\ call' \in [Calls -> CallState] /\ \A d \in Calls \ {c} : Kept(d)
    /\ LocalOK(c)'
    /\ call'[c].at \in Building <=> call[c].at \in Building
    /\ call'[c].at \in Counting <=> call[c].at \in Counting
    /\ call'[c].at = "using" <=> call[c].at = "using"
    /\ call[c].at \in Published => call'[c].at \in Published
    /\ call'[c].at \notin Teardowns
    /\ \/ call'[c].root = call[c].root
       \/ call[c].at = "start" /\ call'[c].at \notin Locked \cup Cold
    /\ call'[c].slot = call[c].slot
    /\ call'[c].out \in {None, call[c].out}
    /\ call'[c].guard # None => call'[c].guard = call[c].guard /\ Target(c)' = Target(c)
    /\ call'[c].held =>
           call[c].held /\ call'[c].guard = call[c].guard /\ Target(c)' = Target(c)
    /\ call'[c].at \in Locked =>
           \/ call[c].at \in Locked /\ call'[c].guard = call[c].guard
           \/ ~shutting /\ call[c].held /\ Target(c) = call[c].root
    /\ call'[c].at \in Cold => call[c].at \in Cold \/ slots[call[c].root] = None

\* A step that touches nothing but the call itself and the open stores.
LEMMA QuietKeeps ==
  ASSUME RegistryInv, NEW c \in Calls, Quiet(c),
         UNCHANGED <<slotVars, transients, pending, minted, lifecycle>>, open' \in SUBSET Calls
  PROVE  RegistryInv'
  <1> USE DEF RegistryInv, Quiet, slotVars, lifecycle
  <1>1. TypeOK'
    BY DEF TypeOK
  <1>2. Locals'
    BY LocalsMove
  <1>3. call[c].at = "start" => call[c].at \notin Building \cup Published \cup Cold \cup Locked
    BY DEF Building, Published, Leasing, Cold, Locked, Counting
  <1>4. SeatsOwned'
    <2>1. \A r \in seats : slots'[r] = None
      BY DEF SeatsOwned
    <2> QED BY <1>3, <2>1, SeatsStay
  <1>5. WithinCap'
    BY CapShrinks DEF Warm
  <1>6. LeasesCounted'
    BY LeasesStay
  <1>7. SlotsPublished'
    BY <1>3, SlotsMove
  <1>8. TransientsCounted'
    BY TransientsStay
  <1>9. ShutdownFinal'
    BY DEF ShutdownFinal, Drained
  <1>10. GuardsExclude'
    BY GuardsStay
  <1>11. GuardsHeld'
    <2>1. \A d \in Calls : call[d].at \in Cold => call[d].root \in Roots
      BY ColdIsPlaced
    <2>2. call'[c].at \in Locked => call'[c].root = call[c].root /\ call'[c].held
      BY <1>3 DEF LocalOK, Locked, Cold, Counting
    <2> QED BY <2>1, <2>2, HeldMove
  <1> QED BY <1>1, <1>2, <1>4, <1>5, <1>6, <1>7, <1>8, <1>9, <1>10, <1>11

\* A call returns that holds neither seat nor lease nor store, ...
LEMMA ReturnKeeps ==
  ASSUME RegistryInv, NEW c \in Calls, call' = Return(c),
         call[c].at \in {"reserve", "gap", "replace", "pin", "cold", "maintain", "evict",
                         "transient", "evicted", "emptied"},
         UNCHANGED <<slotVars, transients, pending, minted, lifecycle>>, open' \in SUBSET Calls
  PROVE  RegistryInv'
  <1>1. Moves(c, "done", None, FALSE, None, None, None)
    BY ReturnMoves DEF RegistryInv
  <1>2. call[c].slot = None
    BY DEF RegistryInv, Locals, LocalOK, Leasing
  <1>3. Quiet(c)
    BY <1>1, <1>2 DEF Quiet, Moves, LocalOK, Admission, Unguarded, Teardowns, Building, Leasing,
       Published, Locked, Cold, Counting
  <1> QED BY <1>3, QuietKeeps

\* ... one gives its guard back and starts over, or goes on with its lease, ...
LEMMA LeaveKeeps ==
  ASSUME RegistryInv, NEW c \in Calls, NEW p, call' = Leave(c, p),
         \/ call[c].at \in {"gap", "replace", "woken"} /\ p = "reserve"
         \/ call[c].at \in {"sweeping", "sweep", "swept"} /\ p = "leased"
         \/ call[c].at = "replaced" /\ p = "construct",
         UNCHANGED <<slotVars, transients, pending, minted, lifecycle>>, open' \in SUBSET Calls
  PROVE  RegistryInv'
  <1>1. p \in Points
    BY DEF Points, Unguarded, Leasing, Building
  <1>2. Moves(c, p, None, FALSE, call[c].slot, None, None)
    BY <1>1, LeaveMoves DEF RegistryInv
  <1>3. LocalOK(c)
    BY DEF RegistryInv, Locals
  <1>4. Quiet(c)
    <2>1. LocalOK(c)'
      BY <1>2, <1>3 DEF Moves, LocalOK, Target, Admission, Unguarded, Teardowns, Leasing, Locked, Cold, Counting
    <2> QED BY <1>2, <2>1 DEF Quiet, Moves, Teardowns, Building, Leasing, Published, Locked,
               Cold, Counting
  <1> QED BY <1>4, QuietKeeps

\* ... or one goes on beneath its guard, if it has one.
LEMMA GotoKeeps ==
  ASSUME RegistryInv, NEW c \in Calls, NEW p, call' = Goto(c, p),
         \/ call[c].at = "reserve" /\ p \in {"joining", "gap"}
         \/ call[c].at = "gap" /\ p = "waiting"
         \/ call[c].at = "pin" /\ p = "cold"
         \/ /\ call[c].at \in {"cold", "maintain"} /\ p = "transient"
            /\ call[c].held /\ slots[call[c].root] = None
         \/ call[c].at = "construct" /\ p = "building" /\ call[c].held /\ ~shutting
         \/ call[c].at = "building" /\ p = "built"
         \/ call[c].at = "built" /\ p = "discarding"
         \/ call[c].at = "opening" /\ p = "opened"
         \/ call[c].at = "opened" /\ p = "late",
         UNCHANGED <<slotVars, transients, pending, minted, lifecycle>>, open' \in SUBSET Calls
  PROVE  RegistryInv'
  <1>1. p \in Points
    BY DEF Points, Unguarded, Guarded, Building, Locked, Counting
  <1>2. Moves(c, p, call[c].guard, call[c].held, call[c].slot, call[c].victim, call[c].out)
    BY <1>1, GotoMoves DEF RegistryInv
  <1>3. LocalOK(c)
    BY DEF RegistryInv, Locals
  <1>4. call[c].out = None
    BY <1>3 DEF LocalOK, Teardowns, Cold, Counting
  <1>5. Quiet(c)
    <2>1. LocalOK(c)'
      BY <1>2, <1>3, <1>4 DEF Moves, LocalOK, Target, Admission, Unguarded, Teardowns, Leasing, Locked,
         Cold, Counting
    <2>2. Target(c)' = Target(c)
      BY <1>2 DEF Moves, Target
    <2>3. call[c].at \in {"construct", "building", "built", "opening", "opened"} =>
              Target(c) = call[c].root
      BY DEF Target
    <2> QED BY <1>2, <2>1, <2>2, <2>3 DEF Quiet, Moves, Teardowns, Building, Leasing,
               Published, Locked, Cold, Counting
  <1> QED BY <1>5, QuietKeeps

\* A call begins.
LEMMA BeginKeeps ==
  ASSUME RegistryInv, NEW c \in Calls, Begin(c)
  PROVE  RegistryInv'
  <1>1. PICK o \in Operations \cap CallKinds, r \in Roots :
          call' = [call EXCEPT ![c].op = o, ![c].root = r, ![c].at =
                     CASE o \in {"lease", "peek"} -> "reserve"
                       [] o = "store" -> "pin"
                       [] OTHER -> o]
    BY DEF Begin
  <1>2. PICK p \in {"reserve", "pin", "maintain", "evict"} :
          /\ p = "reserve" => o # "store"
          /\ call' = [call EXCEPT ![c] = [call[c] EXCEPT !.op = o, !.root = r, !.at = p]]
    BY <1>1 DEF CallKinds
  <1> DEFINE f == [call[c] EXCEPT !.op = o, !.root = r, !.at = p]
  <1>3. p \in Points /\ call[c].at = "start"
    BY DEF Points, Unguarded, Guarded, Begin
  <1>4. /\ f \in CallState /\ f.op = o /\ f.at = p /\ f.root = r /\ f.guard = call[c].guard
        /\ f.held = call[c].held /\ f.slot = call[c].slot /\ f.out = call[c].out
    BY <1>3 DEF RegistryInv, TypeOK, CallState
  <1> HIDE DEF f
  <1>5. /\ call' \in [Calls -> CallState] /\ \A d \in Calls \ {c} : Kept(d)
        /\ call'[c] = f
    BY <1>2, <1>4 DEF RegistryInv, TypeOK, Kept, f
  <1>6. LocalOK(c)
    BY DEF RegistryInv, Locals
  <1>7. /\ call[c].guard = None /\ ~call[c].held /\ call[c].slot = None /\ call[c].out = None
    BY <1>3, <1>6 DEF LocalOK, Unguarded, Leasing, Teardowns, Cold, Counting
  <1>8. LocalOK(c)'
    BY <1>2, <1>4, <1>5, <1>7 DEF LocalOK, Admission, Target, Unguarded, Teardowns, Leasing, Locked, Cold, Counting
  <1>9. Quiet(c)
    BY <1>3, <1>4, <1>5, <1>7, <1>8 DEF Quiet, Teardowns, Building, Leasing, Published,
       Locked, Cold, Counting
  <1>10. UNCHANGED <<slotVars, transients, pending, minted, lifecycle>> /\ open' \in SUBSET Calls
    BY DEF Begin, storeVars, RegistryInv, TypeOK
  <1> QED BY <1>9, <1>10, QuietKeeps

\* A call turns to the next slot its sweep found idle, or to the lease it is for.
LEMMA NextVictimKeeps ==
  ASSUME RegistryInv, NEW c \in Calls, NEW rest \in SUBSET Roots, NextVictim(c, rest),
         call[c].at \in {"sweeping", "sweep", "swept"},
         UNCHANGED <<slotVars, transients, pending, minted, lifecycle>>, open' \in SUBSET Calls
  PROVE  RegistryInv'
  <1>1. CASE call' = Leave(c, "leased")
    BY <1>1, LeaveKeeps
  <1>2. ASSUME NEW v \in rest,
               call' = [Leave(c, "sweep") EXCEPT ![c].victim = v, ![c].sweep = rest \ {v}]
        PROVE  RegistryInv'
    <2> DEFINE f == [call[c] EXCEPT !.at = "sweep", !.guard = None, !.held = FALSE,
                                    !.victim = v, !.out = None, !.sweep = rest \ {v}]
    <2>1. call' = [call EXCEPT ![c] = f]
      BY <1>2 DEF Leave, RegistryInv, TypeOK, CallState
    <2>0. v \in Roots /\ rest \ {v} \in SUBSET Roots /\ "sweep" \in Points
      BY DEF Points, Leasing
    <2>2. /\ f \in CallState /\ f.op = call[c].op /\ f.at = "sweep" /\ f.root = call[c].root /\ f.guard = None
          /\ f.held = FALSE /\ f.slot = call[c].slot /\ f.victim = v /\ f.out = None
      BY <2>0 DEF RegistryInv, TypeOK, CallState
    <2> HIDE DEF f
    <2>3. Moves(c, "sweep", None, FALSE, call[c].slot, v, None)
      BY <2>1, <2>2, OneMoves DEF RegistryInv
    <2>4. LocalOK(c)
      BY DEF RegistryInv, Locals
    <2>5. LocalOK(c)'
      BY <2>3, <2>4 DEF Moves, LocalOK, Target, Admission, Unguarded, Teardowns, Leasing, Locked, Cold, Counting
    <2>6. Quiet(c)
      BY <2>3, <2>5 DEF Quiet, Moves, Teardowns, Building, Leasing, Published, Locked,
         Cold, Counting
    <2> QED BY <2>6, QuietKeeps
  <1> QED BY <1>1, <1>2 DEF NextVictim

\* A call chooses the slot it will replace.
LEMMA ChooseVictimKeeps ==
  ASSUME RegistryInv, NEW c \in Calls, NEW v \in Roots, call[c].at = "reserve",
         call' = [Goto(c, "replace") EXCEPT ![c].victim = v],
         UNCHANGED <<slotVars, transients, pending, minted, lifecycle>>, open' \in SUBSET Calls
  PROVE  RegistryInv'
  <1> DEFINE f == [call[c] EXCEPT !.at = "replace", !.victim = v]
  <1>1. call' = [call EXCEPT ![c] = f]
    BY DEF Goto, RegistryInv, TypeOK, CallState
  <1>2. /\ f \in CallState /\ f.op = call[c].op /\ f.at = "replace" /\ f.root = call[c].root
        /\ f.guard = call[c].guard /\ f.held = call[c].held /\ f.slot = call[c].slot
        /\ f.victim = v /\ f.out = call[c].out
    BY DEF RegistryInv, TypeOK, CallState, Points, Guarded
  <1> HIDE DEF f
  <1>3. Moves(c, "replace", call[c].guard, call[c].held, call[c].slot, v, call[c].out)
    BY <1>1, <1>2, OneMoves DEF RegistryInv
  <1>4. LocalOK(c)
    BY DEF RegistryInv, Locals
  <1>5. call[c].guard = None /\ ~call[c].held /\ call[c].out = None /\ call[c].slot = None
    BY <1>4 DEF LocalOK, Unguarded, Teardowns, Leasing, Cold, Counting
  <1>6. LocalOK(c)'
    BY <1>3, <1>4, <1>5 DEF Moves, LocalOK, Target, Admission, Unguarded, Teardowns, Leasing, Locked,
       Cold, Counting
  <1>7. Quiet(c)
    BY <1>3, <1>5, <1>6 DEF Quiet, Moves, Teardowns, Building, Leasing, Published, Locked,
       Cold, Counting
  <1> QED BY <1>7, QuietKeeps

----------------------------------------------------------------------------
(* Steps that change what calls share.                                      *)

\* A call that holds no guard still holds none once it has one in hand.
LEMMA GuardInHand ==
  ASSUME NEW f \in CallState, f.held = FALSE, NEW g
  PROVE  [f EXCEPT !.guard = g] = [f EXCEPT !.guard = g, !.held = FALSE]
  BY DEF CallState

\* A call looks a guard up: whoever finds none, comes after a shutdown.
LEMMA FetchGuardKeeps ==
  ASSUME RegistryInv, NEW c \in Calls, FetchGuard(c)
  PROVE  RegistryInv'
  <1> DEFINE r == GuardedRoot(c)
  <1>1. LocalOK(c) /\ call[c].at \in Guarded /\ call[c].guard = None /\ ~call[c].held
    BY DEF RegistryInv, Locals, FetchGuard
  <1>2. r = Target(c) /\ r \in Roots
    BY <1>1 DEF GuardedRoot, Target, LocalOK, Guarded
  <1> HIDE DEF r
  <1>3. PICK g \in (Roots \X Nat) \cup {None}, h \in BOOLEAN :
          /\ call' = [call EXCEPT ![c] = [call[c] EXCEPT !.guard = g, !.held = h]]
          /\ \/ g = <<r, minted'[r]>> /\ minted'[r] # 0 /\ ~h
             \/ g = None /\ h /\ shutting /\ minted[r] = 0
          /\ \/ minted' = minted /\ (minted[r] # 0 \/ shutting)
             \/ ~shutting /\ minted[r] = 0 /\ minted' = [minted EXCEPT ![r] = life]
    <2>1. /\ minted[r] \in Nat /\ life \in Nat \ {0} /\ minted \in [Roots -> Nat]
          /\ call \in [Calls -> CallState] /\ call[c] \in CallState
          /\ call[c].guard = None /\ call[c].held = FALSE
      BY <1>1, <1>2 DEF RegistryInv, TypeOK, CallState
    <2>2. CASE minted[r] # 0 /\ call' = [call EXCEPT ![c].guard = <<r, minted[r]>>] /\ UNCHANGED minted
      <3>1. call' = [call EXCEPT ![c] = [call[c] EXCEPT !.guard = <<r, minted[r]>>, !.held = FALSE]]
        <4>1. call' = [call EXCEPT ![c] = [call[c] EXCEPT !.guard = <<r, minted[r]>>]]
          BY <2>2
        <4> QED BY <2>1, <4>1, GuardInHand
      <3> QED BY <1>2, <2>1, <2>2, <3>1
    <2>3. CASE /\ minted[r] = 0 /\ ~shutting
               /\ minted' = [minted EXCEPT ![r] = life]
               /\ call' = [call EXCEPT ![c].guard = <<r, life>>]
      <3>1. call' = [call EXCEPT ![c] = [call[c] EXCEPT !.guard = <<r, life>>, !.held = FALSE]]
        <4>1. call' = [call EXCEPT ![c] = [call[c] EXCEPT !.guard = <<r, life>>]]
          BY <2>3
        <4> QED BY <2>1, <4>1, GuardInHand
      <3>2. minted'[r] = life
        BY <1>2, <2>1, <2>3
      <3>3. <<r, life>> \in Roots \X Nat /\ life # 0
        BY <1>2, <2>1
      <3> QED BY <2>3, <3>1, <3>2, <3>3
    <2>4. CASE /\ minted[r] = 0 /\ shutting
               /\ call' = [call EXCEPT ![c].held = TRUE] /\ UNCHANGED minted
      <3>1. call' = [call EXCEPT ![c] = [call[c] EXCEPT !.guard = None, !.held = TRUE]]
        BY <2>1, <2>4 DEF CallState
      <3> QED BY <2>4, <3>1
    <2> QED BY <2>2, <2>3, <2>4 DEF FetchGuard, r
  <1> DEFINE f == [call[c] EXCEPT !.guard = g, !.held = h]
  <1>4. /\ f \in CallState /\ f.op = call[c].op /\ f.at = call[c].at /\ f.root = call[c].root /\ f.guard = g
        /\ f.held = h /\ f.slot = call[c].slot /\ f.victim = call[c].victim
        /\ f.out = call[c].out
    BY DEF RegistryInv, TypeOK, CallState
  <1>5. Moves(c, call[c].at, g, h, call[c].slot, call[c].victim, call[c].out)
    BY <1>3, <1>4, OneMoves DEF RegistryInv
  <1> HIDE DEF f
  <1>6. /\ \A d \in Calls \ {c} : Kept(d)
        /\ call' \in [Calls -> CallState] /\ call'[c] \in CallState
        /\ call'[c].at = call[c].at /\ call'[c].root = call[c].root
        /\ call'[c].slot = call[c].slot /\ call'[c].out = call[c].out
        /\ call'[c].guard = g /\ call'[c].held = h
        /\ Target(c)' = Target(c)
    BY <1>5 DEF Moves, Target
  <1>7. call[c].at \notin Unguarded \cup Teardowns \cup Locked \cup Cold
    BY <1>1 DEF Guarded, Unguarded, Teardowns, Locked, Cold, Counting
  <1>8. UNCHANGED <<slotVars, storeVars, lifecycle>>
    BY DEF FetchGuard
  <1> USE DEF slotVars, storeVars, lifecycle
  <1>9. TypeOK'
    <2>1. minted' \in [Roots -> Nat]
      BY <1>3 DEF RegistryInv, TypeOK
    <2> QED BY <1>6, <1>8, <2>1 DEF RegistryInv, TypeOK
  <1>10. Locals'
    <2>1. call'[c].op = call[c].op
      BY <1>1, <1>5 DEF Moves, Guarded
    <2>2. LocalOK(c)'
      BY <1>1, <1>6, <1>7, <2>1 DEF LocalOK, Admission, Guarded, Unguarded, Teardowns, Locked, Cold, Counting
    <2> QED BY <1>6, <2>2, LocalsMove DEF RegistryInv
  <1>11. SeatsOwned' /\ WithinCap'
    <2>1. \A q \in seats : slots'[q] = None
      BY <1>8 DEF RegistryInv, SeatsOwned
    <2>2. Warm' = Warm
      BY <1>8 DEF Warm
    <2> QED BY <1>6, <1>8, <2>1, <2>2, SeatsStay, CapShrinks DEF RegistryInv
  <1>12. LeasesCounted' /\ TransientsCounted' /\ ShutdownFinal'
    BY <1>6, <1>8, LeasesStay, TransientsStay DEF RegistryInv, ShutdownFinal, Drained
  <1>13. SlotsPublished'
    <2>1. call'[c].at \notin Teardowns
      BY <1>6, <1>7
    <2> QED BY <1>6, <1>8, <2>1, SlotsMove DEF RegistryInv
  <1>14. GuardsExclude'
    BY <1>3, <1>6, GuardsStay DEF RegistryInv
  <1>15. GuardsHeld'
    <2> SUFFICES ASSUME life = 1
                 PROVE  GuardsHeld'
      BY <1>8 DEF GuardsHeld
    <2>1. \A d \in Calls : d # c =>
              /\ call'[d].guard = call[d].guard /\ call'[d].held = call[d].held
              /\ call'[d].root = call[d].root /\ Target(d)' = Target(d)
              /\ call'[d].at \in Locked <=> call[d].at \in Locked
              /\ call'[d].at \in Cold <=> call[d].at \in Cold
      BY <1>6, KeptPoint DEF Kept
    <2>2. /\ call'[c].at \notin Locked /\ call'[c].at \notin Cold
          /\ call[c].at \notin Locked /\ call[c].at \notin Cold
      BY <1>6, <1>7
    <2>3. \A q \in Roots : minted'[q] \in {0, 1} /\ (minted[q] = 1 => minted'[q] = 1)
      BY <1>2, <1>3 DEF RegistryInv, TypeOK, GuardsHeld
    <2>4. ~shutting => minted'[r] = 1
      BY <1>2, <1>3 DEF RegistryInv, TypeOK, GuardsHeld
    <2>5. g # None => g = <<r, 1>> /\ (~shutting => minted'[r] = 1)
      BY <1>2, <1>3, <2>4 DEF RegistryInv, TypeOK, GuardsHeld
    <2>6. h => shutting /\ \A e \in Calls : call[e].at \in Locked => call[e].root # r
      BY <1>2, <1>3, <2>4 DEF RegistryInv, GuardsHeld
    <2>7. ASSUME NEW d \in Calls, call'[d].guard # None
          PROVE  /\ call'[d].guard = <<Target(d)', 1>>
                 /\ ~shutting' => minted'[Target(d)'] = 1
      <3>1. CASE d = c
        BY <1>2, <1>6, <1>8, <2>5, <2>7, <3>1
      <3>2. CASE d # c
        <4>1. /\ call[d].guard = <<Target(d), 1>> /\ Target(d)' = Target(d)
              /\ ~shutting => minted[Target(d)] = 1
          BY <2>1, <2>7, <3>2 DEF RegistryInv, GuardsHeld
        <4>2. call[d].guard \in (Roots \X Nat) \cup {None}
          BY DEF RegistryInv, TypeOK, CallState
        <4>3. Target(d) \in Roots
          BY <2>1, <2>7, <3>2, <4>1, <4>2
        <4> QED BY <1>8, <2>1, <2>3, <3>2, <4>1, <4>3
      <3> QED BY <3>1, <3>2
    <2>8. ASSUME NEW d \in Calls, call'[d].at \in Locked
          PROVE  call'[d].guard # None /\ minted'[call'[d].root] = 1
      <3>1. d # c /\ call[d].at \in Locked /\ call[d].root \in Roots
        BY <2>1, <2>2, <2>8, ColdIsPlaced DEF RegistryInv
      <3> QED BY <2>1, <2>3, <3>1 DEF RegistryInv, GuardsHeld
    <2>9. ASSUME NEW d \in Calls, call'[d].held, call'[d].guard = None
          PROVE  /\ shutting'
                 /\ \A e \in Calls : call'[e].at \in Locked => call'[e].root # Target(d)'
      <3>1. CASE d = c
        BY <1>2, <1>6, <1>8, <2>1, <2>2, <2>6, <2>9, <3>1
      <3>2. CASE d # c
        BY <1>8, <2>1, <2>2, <2>9, <3>2 DEF RegistryInv, GuardsHeld
      <3> QED BY <3>1, <3>2
    <2>10. \A d \in Calls : call'[d].at \in Cold => slots'[call'[d].root] = None
      BY <1>8, <2>1, <2>2 DEF RegistryInv, GuardsHeld
    <2> QED BY <2>3, <2>7, <2>8, <2>9, <2>10 DEF GuardsHeld
  <1> QED BY <1>9, <1>10, <1>11, <1>12, <1>13, <1>14, <1>15 DEF RegistryInv

\* A call enters its root's guard, which nobody holds.
LEMMA EnterGuardKeeps ==
  ASSUME RegistryInv, NEW c \in Calls, EnterGuard(c)
  PROVE  RegistryInv'
  <1> DEFINE f == [call[c] EXCEPT !.held = TRUE]
  <1>1. /\ LocalOK(c) /\ call[c].at \in Guarded /\ call[c].guard # None
        /\ \A d \in Calls : ~(call[d].held /\ call[d].guard = call[c].guard)
        /\ call' = [call EXCEPT ![c] = f]
        /\ UNCHANGED <<slotVars, storeVars, minted, lifecycle>>
    BY DEF RegistryInv, Locals, EnterGuard
  <1>2. /\ f \in CallState /\ f.op = call[c].op /\ f.at = call[c].at /\ f.root = call[c].root
        /\ f.guard = call[c].guard /\ f.held = TRUE /\ f.slot = call[c].slot
        /\ f.victim = call[c].victim /\ f.out = call[c].out
    BY DEF RegistryInv, TypeOK, CallState
  <1> HIDE DEF f
  <1>3. Moves(c, call[c].at, call[c].guard, TRUE, call[c].slot, call[c].victim, call[c].out)
    BY <1>1, <1>2, OneMoves DEF RegistryInv
  <1>4. /\ \A d \in Calls \ {c} : Kept(d)
        /\ call' \in [Calls -> CallState] /\ call'[c] \in CallState
        /\ call'[c].at = call[c].at /\ call'[c].root = call[c].root
        /\ call'[c].slot = call[c].slot /\ call'[c].out = call[c].out
        /\ call'[c].guard = call[c].guard /\ call'[c].held
        /\ Target(c)' = Target(c)
    BY <1>3 DEF Moves, Target
  <1>5. call[c].at \notin Unguarded \cup Teardowns \cup Locked \cup Cold
    BY <1>1 DEF Guarded, Unguarded, Teardowns, Locked, Cold, Counting
  <1> USE DEF slotVars, storeVars, lifecycle
  <1>6. TypeOK'
    BY <1>1, <1>4 DEF RegistryInv, TypeOK
  <1>7. Locals'
    <2>1. call'[c].op = call[c].op
      BY <1>1, <1>3 DEF Moves, Guarded
    <2>2. LocalOK(c)'
      BY <1>1, <1>4, <1>5, <2>1 DEF LocalOK, Admission, Teardowns, Cold, Counting
    <2> QED BY <1>4, <2>2, LocalsMove DEF RegistryInv
  <1>8. SeatsOwned' /\ WithinCap'
    <2>1. \A q \in seats : slots'[q] = None
      BY <1>1 DEF RegistryInv, SeatsOwned
    <2>2. Warm' = Warm
      BY <1>1 DEF Warm
    <2> QED BY <1>1, <1>4, <2>1, <2>2, SeatsStay, CapShrinks DEF RegistryInv
  <1>9. LeasesCounted' /\ TransientsCounted' /\ ShutdownFinal'
    BY <1>1, <1>4, LeasesStay, TransientsStay DEF RegistryInv, ShutdownFinal, Drained
  <1>10. SlotsPublished'
    <2>1. call'[c].at \notin Teardowns
      BY <1>4, <1>5
    <2> QED BY <1>1, <1>4, <2>1, SlotsMove DEF RegistryInv
  <1>11. GuardsExclude'
    <2>1. \A d \in Calls : d # c =>
              call'[d].held = call[d].held /\ call'[d].guard = call[d].guard
      BY <1>4 DEF Kept
    <2> QED BY <1>1, <1>4, <2>1 DEF RegistryInv, GuardsExclude
  <1>12. GuardsHeld'
    <2>1. \A d \in Calls : call[d].at \in Cold => call[d].root \in Roots
      BY ColdIsPlaced DEF RegistryInv
    <2>2. call'[c].at \notin Locked /\ call'[c].at \notin Cold
      BY <1>4, <1>5
    <2> QED BY <1>1, <1>4, <2>1, <2>2, HeldMove DEF RegistryInv
  <1> QED BY <1>6, <1>7, <1>8, <1>9, <1>10, <1>11, <1>12 DEF RegistryInv

\* A call that neither builds nor is at a storage leases a slot that is published.
LEMMA LeasingKeeps ==
  ASSUME RegistryInv, NEW c \in Calls, NEW s \in Calls, Pin(s),
         \E r \in Roots : slots[r] = s,
         call' \in [Calls -> CallState], \A d \in Calls \ {c} : Kept(d), LocalOK(c)',
         call[c].at \notin Building \cup Published \cup Teardowns \cup Locked \cup Cold,
         call'[c].at \in {"sweeping", "leased"},
         call[c].slot = None, call'[c].slot = s, call'[c].out = None,
         call'[c].root = call[c].root,
         \/ /\ call'[c].guard = call[c].guard /\ call'[c].held = call[c].held
            /\ Target(c)' = Target(c)
         \/ call'[c].guard = None /\ ~call'[c].held,
         UNCHANGED <<slots, seats, transients, pending, open, minted, lifecycle>>
  PROVE  RegistryInv'
  <1> USE DEF RegistryInv, lifecycle
  <1>1. /\ call'[c].at \notin Building \cup Teardowns \cup Locked \cup Cold
        /\ call'[c].at \in Published /\ call'[c].at # "using" /\ call'[c].at \notin Counting
        /\ call[c].at # "using" /\ call[c].at \notin Counting
    BY DEF Building, Teardowns, Locked, Cold, Counting, Published, Leasing
  <1>2. TypeOK'
    <2>1. refs' \in [Calls -> Nat]
      BY DEF TypeOK, Pin
    <2> QED BY <2>1 DEF TypeOK
  <1>3. Locals'
    BY LocalsMove
  <1>4. SeatsOwned' /\ WithinCap'
    <2>1. \A q \in seats : slots'[q] = None
      BY DEF SeatsOwned
    <2>2. Warm' = Warm
      BY DEF Warm
    <2> QED BY <1>1, <2>1, <2>2, SeatsStay, CapShrinks
  <1>5. LeasesCounted'
    BY LeasesPinned
  <1>6. SlotsPublished'
    <2>1. \A t \in Calls : /\ refs[t] = 0 /\ call[t].at \in Published
                           /\ \A r \in Roots : slots[r] # t
                           => refs'[t] = 0
      BY DEF Pin, TypeOK
    <2>2. call'[c] \in CallState
      OBVIOUS
    <2>3. \A r \in Roots : slots'[r] \in {slots[r], None}
      OBVIOUS
    <2> QED BY <1>1, <2>1, <2>2, <2>3, SlotsMove
  <1>7. TransientsCounted' /\ ShutdownFinal'
    BY <1>1, TransientsStay DEF ShutdownFinal, Drained
  <1>8. GuardsExclude'
    BY GuardsStay
  <1>9. GuardsHeld'
    <2>1. \A d \in Calls : call[d].at \in Cold => call[d].root \in Roots
      BY ColdIsPlaced
    <2> QED BY <1>1, <2>1, HeldMove
  <1> QED BY <1>2, <1>3, <1>4, <1>5, <1>6, <1>7, <1>8, <1>9

\* A warm slot is taken as the call asked for it.
LEMMA AdoptWarmKeeps ==
  ASSUME RegistryInv, NEW c \in Calls, AdoptWarm(c),
         call[c].at \in {"reserve", "gap", "replace", "pin", "cold"}
  PROVE  RegistryInv'
  <1> DEFINE s == slots[call[c].root]
  <1>1. LocalOK(c) /\ call[c].root \in Roots
    BY DEF RegistryInv, Locals, LocalOK
  <1>2. s \in Calls /\ s # None /\ \E r \in Roots : slots[r] = s
    BY <1>1 DEF AdoptWarm, RegistryInv, TypeOK
  <1>3. call[c].slot = None /\ call[c].out = None
    BY <1>1 DEF LocalOK, Leasing, Teardowns, Cold, Counting
  <1>4. call[c].at \notin Building \cup Published \cup Teardowns \cup Locked \cup Cold
    BY DEF Building, Published, Leasing, Teardowns, Locked, Cold, Counting
  <1> HIDE DEF s
  <1>5. CASE call' = Return(c) /\ UNCHANGED refs
    <2>1. UNCHANGED <<slotVars, transients, pending, open, minted, lifecycle>>
      BY <1>5 DEF AdoptWarm, slotVars, storeVars
    <2>2. open' \in SUBSET Calls
      BY <2>1 DEF RegistryInv, TypeOK
    <2> QED BY <1>5, <2>1, <2>2, ReturnKeeps
  <1>6. CASE Pin(s) /\ call' = [Leave(c, "sweeping") EXCEPT ![c].slot = s]
    <2>1. PICK f \in CallState :
            /\ [Leave(c, "sweeping") EXCEPT ![c].slot = s] = [call EXCEPT ![c] = f]
            /\ f.op = call[c].op /\ f.at = "sweeping" /\ f.root = call[c].root
            /\ f.guard = None /\ f.held = FALSE /\ f.slot = s
            /\ f.victim = None /\ f.out = None
      BY <1>2, LeaveLeasing DEF RegistryInv
    <2>2. call' = [call EXCEPT ![c] = f]
      BY <1>6, <2>1
    <2>3. Moves(c, "sweeping", None, FALSE, s, None, None)
      BY <2>1, <2>2, OneMoves DEF RegistryInv
    <2>4. LocalOK(c)'
      BY <1>1, <1>2, <2>3 DEF Moves, LocalOK, Target, Admission, Unguarded, Teardowns,
         Leasing, Locked, Cold, Counting
    <2>5. UNCHANGED <<slots, seats, transients, pending, open, minted, lifecycle>>
      BY DEF AdoptWarm, storeVars
    <2> QED BY <1>2, <1>3, <1>4, <1>6, <2>3, <2>4, <2>5, LeasingKeeps DEF Moves
  <1>7. CASE /\ call[c].op = "store" /\ Pin(s)
             /\ call' = [Goto(c, "leased") EXCEPT ![c].slot = s]
    <2> DEFINE f == [call[c] EXCEPT !.at = "leased", !.slot = s]
    <2>1. call' = [call EXCEPT ![c] = f]
      BY <1>7 DEF Goto, RegistryInv, TypeOK, CallState
    <2>2. /\ f \in CallState /\ f.op = call[c].op /\ f.at = "leased" /\ f.root = call[c].root
          /\ f.guard = call[c].guard /\ f.held = call[c].held /\ f.slot = s
          /\ f.victim = call[c].victim /\ f.out = call[c].out
      BY <1>2 DEF RegistryInv, TypeOK, CallState, Points, Leasing
    <2> HIDE DEF f
    <2>3. Moves(c, "leased", call[c].guard, call[c].held, s, call[c].victim, call[c].out)
      BY <2>1, <2>2, OneMoves DEF RegistryInv
    <2>4. call[c].at \in {"pin", "cold"}
      BY <1>1, <1>7 DEF LocalOK, Admission
    <2>5. Target(c)' = Target(c)
      BY <2>3, <2>4 DEF Moves, Target
    <2>6. LocalOK(c)'
      BY <1>1, <1>2, <1>3, <2>3 DEF Moves, LocalOK, Target, Admission, Unguarded, Teardowns,
         Leasing, Locked, Cold, Counting
    <2>7. UNCHANGED <<slots, seats, transients, pending, open, minted, lifecycle>>
      BY DEF AdoptWarm, storeVars
    <2> QED BY <1>2, <1>3, <1>4, <1>7, <2>3, <2>5, <2>6, <2>7, LeasingKeeps DEF Moves
  <1> QED BY <1>5, <1>6, <1>7 DEF AdoptWarm, s

\* A seat is taken where there is room.
LEMMA TakeSeatKeeps ==
  ASSUME RegistryInv, NEW c \in Calls, TakeSeat(c),
         call[c].at \in {"reserve", "gap", "replace"}
  PROVE  RegistryInv'
  <1> DEFINE r == call[c].root
  <1>1. LocalOK(c) /\ r \in Roots /\ slots[r] = None /\ r \notin seats /\ ~shutting
    BY DEF RegistryInv, Locals, LocalOK, TakeSeat, NeedsSeat, Missing
  <1>2. call[c].slot = None
    BY <1>1 DEF LocalOK, Leasing
  <1>3. Moves(c, "construct", None, FALSE, None, None, None)
    <2>1. "construct" \in Points
      BY DEF Points, Guarded
    <2> QED BY <1>2, <2>1, LeaveMoves DEF RegistryInv, TakeSeat
  <1>4. /\ seats' = seats \cup {r} /\ HasCapacity
        /\ UNCHANGED <<slots, refs, storeVars, minted, lifecycle>>
    BY DEF TakeSeat
  <1>5. /\ call[c].at \notin Building \cup Published \cup Teardowns \cup Locked \cup Cold
        /\ call[c].at \notin Counting /\ call[c].at # "using"
    BY DEF Building, Published, Leasing, Teardowns, Locked, Cold, Counting
  <1>6. /\ call'[c].at = "construct" /\ call'[c].at \in Building
        /\ call'[c].at \notin Published \cup Teardowns \cup Locked \cup Cold
        /\ call'[c].at \notin Counting /\ call'[c].at # "using"
        /\ call'[c].root = r /\ call'[c].slot = call[c].slot /\ call'[c].out = None
        /\ call'[c].guard = None /\ call'[c].held = FALSE
        /\ call' \in [Calls -> CallState] /\ call'[c] \in CallState
        /\ \A d \in Calls \ {c} : Kept(d)
    BY <1>2, <1>3 DEF Moves, Building, Published, Leasing, Teardowns, Locked, Cold, Counting
  <1> USE DEF storeVars, lifecycle
  <1>7. TypeOK'
    BY <1>1, <1>4, <1>6 DEF RegistryInv, TypeOK
  <1>8. Locals'
    <2>1. LocalOK(c)'
      BY <1>1, <1>2, <1>3 DEF Moves, LocalOK, Target, Admission, Unguarded, Teardowns, Leasing,
         Locked, Cold, Counting
    <2> QED BY <1>6, <2>1, LocalsMove DEF RegistryInv
  <1>9. SeatsOwned'
    <2>1. \A q \in seats' : slots'[q] = None
      BY <1>1, <1>4 DEF RegistryInv, SeatsOwned
    <2> QED BY <1>1, <1>4, <1>5, <1>6, <2>1, SeatsTaken DEF RegistryInv
  <1>10. WithinCap'
    <2>1. Warm' = Warm
      BY <1>4 DEF Warm
    <2> QED BY <1>4, <2>1, CapTaken DEF RegistryInv
  <1>11. LeasesCounted' /\ TransientsCounted' /\ ShutdownFinal'
    BY <1>1, <1>4, <1>5, <1>6, LeasesStay, TransientsStay DEF RegistryInv, ShutdownFinal
  <1>12. SlotsPublished'
    BY <1>4, <1>5, <1>6, SlotsMove DEF RegistryInv
  <1>13. GuardsExclude'
    BY <1>6, GuardsStay DEF RegistryInv
  <1>14. GuardsHeld'
    <2>1. \A d \in Calls : call[d].at \in Cold => call[d].root \in Roots
      BY ColdIsPlaced DEF RegistryInv
    <2> QED BY <1>4, <1>6, <2>1, HeldMove DEF RegistryInv
  <1> QED BY <1>7, <1>8, <1>9, <1>10, <1>11, <1>12, <1>13, <1>14 DEF RegistryInv

\* A slot that nobody leases is taken out, beneath the guard of its root; a
\* replacement takes the seat of its own root in the same step.
LEMMA TakeOutKeeps ==
  ASSUME RegistryInv, NEW c \in Calls, NEW v \in Unleased, NEW p, TakeOut(c, v, p),
         Target(c) = v, call[c].held,
         \/ call[c].at = "replace" /\ p = "replaced"
         \/ call[c].at = "sweep" /\ p = "swept"
         \/ call[c].at = "maintain" /\ p = "emptied"
         \/ call[c].at = "evict" /\ p = "evicted",
         IF p = "replaced" THEN NeedsSeat(c) /\ seats' = seats \cup {call[c].root}
                           ELSE seats' = seats,
         UNCHANGED <<refs, storeVars, minted, lifecycle>>
  PROVE  RegistryInv'
  <1> DEFINE s == slots[v]
             f == [call[c] EXCEPT !.at = p, !.out = s]
  <1>1. /\ LocalOK(c) /\ v \in Roots /\ s \in Calls /\ s # None /\ refs[s] = 0
        /\ call[c].root \in Roots
    BY DEF RegistryInv, Locals, LocalOK, TypeOK, Unleased
  <1>2. /\ slots' = [slots EXCEPT ![v] = None] /\ call' = [call EXCEPT ![c] = f]
    <2>1. call' = [call EXCEPT ![c].at = p, ![c].out = s]
      BY DEF TakeOut
    <2> QED BY <2>1 DEF TakeOut, RegistryInv, TypeOK, CallState
  <1>3. /\ f \in CallState /\ f.op = call[c].op /\ f.at = p /\ f.root = call[c].root
        /\ f.guard = call[c].guard /\ f.held = call[c].held /\ f.slot = call[c].slot
        /\ f.victim = call[c].victim /\ f.out = s
    <2>1. p \in Points
      BY DEF Points, Teardowns
    <2> QED BY <1>1, <2>1 DEF RegistryInv, TypeOK, CallState
  <1> HIDE DEF f
  <1>4. Moves(c, p, call[c].guard, call[c].held, call[c].slot, call[c].victim, s)
    BY <1>2, <1>3, OneMoves DEF RegistryInv
  <1>5. Target(c)' = v
    BY <1>4 DEF Moves, Target
  <1>6. /\ call' \in [Calls -> CallState] /\ call'[c] \in CallState
        /\ \A d \in Calls \ {c} : Kept(d)
        /\ call'[c].root = call[c].root /\ call'[c].slot = call[c].slot
        /\ call'[c].guard = call[c].guard /\ call'[c].held = call[c].held
        /\ call'[c].out = s /\ call'[c].at = p
    BY <1>4 DEF Moves
  <1>7. slots'[v] = None /\ \A r \in Roots : r # v => slots'[r] = slots[r]
    BY <1>1, <1>2 DEF RegistryInv, TypeOK
  <1>8. /\ call[c].at \notin Building \cup Teardowns \cup Locked \cup Cold
        /\ call[c].at \notin Counting /\ call[c].at # "using"
        /\ call'[c].at \in Teardowns
        /\ call'[c].at \notin Counting /\ call'[c].at # "using" /\ call'[c].at \notin Locked
        /\ call'[c].at \in Building <=> p = "replaced"
        /\ call[c].at \in Published => call'[c].at \in Published
        /\ call'[c].at \in Cold => p = "emptied" /\ call[c].root = v
    BY <1>6 DEF Building, Published, Leasing, Teardowns, Locked, Cold, Counting, Target
  <1> HIDE DEF s
  <1> USE DEF storeVars, lifecycle
  <1>9. TypeOK'
    <2>1. slots' \in [Roots -> Calls \cup {None}]
      BY <1>2 DEF RegistryInv, TypeOK
    <2>2. seats' \in SUBSET Roots
      BY <1>1 DEF RegistryInv, TypeOK
    <2> QED BY <1>6, <2>1, <2>2 DEF RegistryInv, TypeOK
  <1>10. Locals'
    <2>1. LocalOK(c)'
      BY <1>1, <1>4, <1>5 DEF Moves, LocalOK, Admission, Unguarded, Teardowns, Leasing,
         Locked, Cold, Counting
    <2> QED BY <1>6, <2>1, LocalsMove DEF RegistryInv
  <1>11. SeatsOwned'
    <2>1. CASE p = "replaced"
      <3>1. /\ seats' = seats \cup {call[c].root} /\ call[c].root \notin seats
            /\ slots[call[c].root] = None
        BY <2>1 DEF NeedsSeat, Missing
      <3>2. \A q \in seats' : slots'[q] = None
        BY <1>1, <1>7, <3>1 DEF RegistryInv, SeatsOwned, TypeOK
      <3> QED BY <1>6, <1>8, <2>1, <3>1, <3>2, SeatsTaken DEF RegistryInv
    <2>2. CASE p # "replaced"
      <3>1. \A q \in seats : slots'[q] = None
        BY <1>7 DEF RegistryInv, SeatsOwned, TypeOK
      <3> QED BY <1>6, <1>8, <2>2, <3>1, SeatsStay DEF RegistryInv
    <2> QED BY <2>1, <2>2
  <1>12. WithinCap'
    <2>1. Warm' = Warm \ {v} /\ v \in Warm
      BY <1>1, <1>7 DEF Warm, s
    <2> QED BY <2>1, CapSwapped, CapShrinks DEF RegistryInv
  <1>13. LeasesCounted' /\ TransientsCounted'
    BY <1>6, <1>8, LeasesStay, TransientsStay DEF RegistryInv
  <1>14. ShutdownFinal'
    BY <1>1 DEF RegistryInv, ShutdownFinal, Drained, s
  <1>15. SlotsPublished'
    <2>1. \E w \in Roots : slots[w] = call'[c].out /\ slots'[w] = None
      BY <1>1, <1>6, <1>7 DEF s
    <2>2. refs'[call'[c].out] = 0
      BY <1>1, <1>6
    <2>3. Target(c)' \in Roots /\ call'[c].out = slots[Target(c)'] /\ call'[c].out # None
      BY <1>1, <1>5, <1>6 DEF s
    <2>4. \A r \in Roots : slots'[r] \in {slots[r], None}
      BY <1>7
    <2>5. \A t \in Calls : refs[t] = 0 => refs'[t] = 0
      OBVIOUS
    <2> QED BY <1>6, <1>8, <2>1, <2>2, <2>3, <2>4, <2>5, SlotsMove DEF RegistryInv
  <1>16. GuardsExclude'
    BY <1>6, GuardsStay DEF RegistryInv
  <1>17. GuardsHeld'
    <2>1. \A d \in Calls : call[d].at \in Cold => call[d].root \in Roots
      BY ColdIsPlaced DEF RegistryInv
    <2>2. \A r \in Roots : slots'[r] \in {slots[r], None}
      BY <1>7
    <2>3. call'[c].at \in Cold => slots'[call'[c].root] = None
      BY <1>6, <1>7, <1>8
    <2> QED BY <1>5, <1>6, <1>8, <2>1, <2>2, <2>3, HeldMove DEF RegistryInv
  <1> QED BY <1>9, <1>10, <1>11, <1>12, <1>13, <1>14, <1>15, <1>16, <1>17 DEF RegistryInv

\* A call gives its seat back and returns; that may end a shutdown.
LEMMA ReleaseSeatKeeps ==
  ASSUME RegistryInv, NEW c \in Calls, call[c].at \in Building, ReleaseSeat(c),
         UNCHANGED <<refs, transients, pending>>, open' \in SUBSET Calls
  PROVE  RegistryInv'
  <1>1. Moves(c, "done", None, FALSE, None, None, None)
    BY ReturnMoves DEF RegistryInv, ReleaseSeat
  <1>2. /\ call' \in [Calls -> CallState] /\ call'[c] \in CallState
        /\ \A d \in Calls \ {c} : Kept(d)
        /\ call'[c].root = call[c].root /\ call'[c].slot = None
        /\ call'[c].guard = None /\ call'[c].held = FALSE
        /\ call'[c].out = None /\ call'[c].at = "done"
    BY <1>1 DEF Moves
  <1>3. /\ call[c].slot = None
        /\ call[c].at \notin Counting /\ call[c].at # "using" /\ call[c].at \notin Published
    BY DEF RegistryInv, Locals, LocalOK, Building, Published, Leasing, Counting
  <1>4. /\ call'[c].at \notin Building \cup Teardowns \cup Locked \cup Cold
        /\ call'[c].at \notin Counting /\ call'[c].at # "using" /\ call'[c].at \in Published
    BY <1>2 DEF Building, Published, Leasing, Teardowns, Locked, Cold, Counting
  <1>5. /\ seats' = seats \ {call[c].root} /\ slots' = slots
        /\ UNCHANGED <<shutting, closer, life>>
        /\ Complete(slots, seats', transients, pending)
    BY DEF ReleaseSeat
  <1>6. \/ complete' = complete /\ minted' = minted
        \/ /\ shutting /\ Drained(slots, seats', transients, pending) /\ complete' = TRUE
           /\ minted' \in [Roots -> Nat] /\ \A r \in Roots : minted'[r] = 0
    BY <1>5, CompleteEffect DEF RegistryInv
  <1>7. TypeOK'
    <2>1. complete' \in BOOLEAN /\ minted' \in [Roots -> Nat]
      BY <1>6 DEF RegistryInv, TypeOK
    <2> QED BY <1>2, <1>5, <2>1 DEF RegistryInv, TypeOK
  <1>8. Locals'
    <2>1. LocalOK(c)'
      BY <1>2 DEF LocalOK, Target, Admission, Unguarded, Teardowns, Leasing, Locked, Cold, Counting
    <2> QED BY <1>2, <2>1, LocalsMove DEF RegistryInv
  <1>9. SeatsOwned'
    <2>1. \A q \in seats' : slots'[q] = None
      BY <1>5 DEF RegistryInv, SeatsOwned
    <2> QED BY <1>2, <1>4, <1>5, <2>1, SeatsGiven DEF RegistryInv
  <1>10. WithinCap'
    BY <1>5, CapShrinks DEF RegistryInv, Warm
  <1>11. LeasesCounted' /\ TransientsCounted'
    BY <1>2, <1>3, <1>4, LeasesStay, TransientsStay DEF RegistryInv
  <1>12. ShutdownFinal'
    BY <1>5, <1>6 DEF RegistryInv, ShutdownFinal, Drained
  <1>13. SlotsPublished'
    BY <1>2, <1>3, <1>4, <1>5, SlotsMove DEF RegistryInv
  <1>14. GuardsExclude'
    BY <1>2, GuardsStay DEF RegistryInv
  <1>15. GuardsHeld'
    <2>1. \A d \in Calls : call[d].at \in Cold => call[d].root \in Roots
      BY ColdIsPlaced DEF RegistryInv
    <2>2. \/ minted' = minted
          \/ /\ shutting' /\ \A r \in Roots : minted'[r] = 0
             /\ \A d \in Calls : call'[d].at \notin Locked
      <3>1. CASE Drained(slots, seats', transients, pending)
        <4>1. Drained(slots, seats, transients, pending)'
          BY <1>5, <3>1 DEF Drained
        <4>2. \A d \in Calls : call'[d].at \notin Locked
          BY <1>9, <1>11, <4>1, DrainedHasNobodyNext
        <4> QED BY <1>5, <1>6, <4>2
      <3> QED BY <1>6, <3>1
    <2> QED BY <1>2, <1>4, <1>5, <2>1, <2>2, HeldMove DEF RegistryInv
  <1> QED BY <1>7, <1>8, <1>9, <1>10, <1>11, <1>12, <1>13, <1>14, <1>15 DEF RegistryInv

\* A call returns its lease.
LEMMA UnleasingKeeps ==
  ASSUME RegistryInv, NEW c \in Calls, call[c].at \in {"leased", "swept"},
         Unpin(call[c].slot), call' = Return(c),
         UNCHANGED <<slots, seats, storeVars, minted, lifecycle>>
  PROVE  RegistryInv'
  <1>1. Moves(c, "done", None, FALSE, None, None, None)
    BY ReturnMoves DEF RegistryInv
  <1>2. /\ call' \in [Calls -> CallState] /\ call'[c] \in CallState
        /\ \A d \in Calls \ {c} : Kept(d)
        /\ call'[c].root = call[c].root /\ call'[c].slot = None
        /\ call'[c].guard = None /\ call'[c].held = FALSE
        /\ call'[c].out = None /\ call'[c].at = "done"
    BY <1>1 DEF Moves
  <1>3. /\ call[c].slot # None
        /\ call[c].at \notin Building /\ call[c].at \notin Counting /\ call[c].at # "using"
    BY DEF RegistryInv, Locals, LocalOK, Building, Leasing, Counting
  <1>4. /\ call'[c].at \notin Building \cup Teardowns \cup Locked \cup Cold
        /\ call'[c].at \notin Counting /\ call'[c].at # "using" /\ call'[c].at \in Published
    BY <1>2 DEF Building, Published, Leasing, Teardowns, Locked, Cold, Counting
  <1> USE DEF storeVars, lifecycle
  <1>5. TypeOK'
    <2>1. call[c].slot \in Calls /\ refs \in [Calls -> Nat]
      BY <1>3 DEF RegistryInv, TypeOK, CallState
    <2>2. refs' \in [Calls -> Nat]
      BY <2>1 DEF Unpin
    <2> QED BY <1>2, <2>2 DEF RegistryInv, TypeOK
  <1>6. Locals'
    <2>1. LocalOK(c)'
      BY <1>2 DEF LocalOK, Target, Admission, Unguarded, Teardowns, Leasing, Locked, Cold, Counting
    <2> QED BY <1>2, <2>1, LocalsMove DEF RegistryInv
  <1>7. SeatsOwned' /\ WithinCap'
    <2>1. \A q \in seats : slots'[q] = None
      BY DEF RegistryInv, SeatsOwned
    <2>2. SeatsOwned'
      BY <1>2, <1>3, <1>4, <2>1, SeatsStay DEF RegistryInv
    <2> QED BY <2>2, CapShrinks DEF RegistryInv, Warm
  <1>8. LeasesCounted'
    BY <1>2, <1>3, LeasesUnpinned DEF RegistryInv
  <1>9. SlotsPublished'
    <2>1. \A t \in Calls : refs[t] = 0 => refs'[t] = 0
      BY DEF Unpin, RegistryInv, TypeOK
    <2> QED BY <1>2, <1>4, <2>1, SlotsMove DEF RegistryInv
  <1>10. TransientsCounted' /\ ShutdownFinal'
    BY <1>2, <1>3, <1>4, TransientsStay DEF RegistryInv, ShutdownFinal, Drained
  <1>11. GuardsExclude'
    BY <1>2, GuardsStay DEF RegistryInv
  <1>12. GuardsHeld'
    <2>1. \A d \in Calls : call[d].at \in Cold => call[d].root \in Roots
      BY ColdIsPlaced DEF RegistryInv
    <2> QED BY <1>2, <1>4, <2>1, HeldMove DEF RegistryInv
  <1> QED BY <1>5, <1>6, <1>7, <1>8, <1>9, <1>10, <1>11, <1>12 DEF RegistryInv

\* A slot takes the place of its seat, leased by the call that built it or by
\* nobody.
LEMMA PublishKeeps ==
  ASSUME RegistryInv, NEW c \in Calls, call[c].at = "built", ~shutting,
         NEW p, NEW s, Moves(c, p, None, FALSE, s, None, None),
         \/ p = "sweeping" /\ s = c /\ Pin(c)
         \/ p = "done" /\ s = None /\ refs' = refs,
         slots' = [slots EXCEPT ![call[c].root] = c],
         seats' = seats \ {call[c].root},
         UNCHANGED <<storeVars, minted, lifecycle>>
  PROVE  RegistryInv'
  <1> DEFINE r == call[c].root
  <1>1. /\ call' \in [Calls -> CallState] /\ call'[c] \in CallState
        /\ \A d \in Calls \ {c} : Kept(d)
        /\ call'[c].root = r /\ call'[c].slot = s
        /\ call'[c].guard = None /\ call'[c].held = FALSE
        /\ call'[c].out = None /\ call'[c].at = p
    BY DEF Moves
  <1>2. /\ call[c].slot = None /\ r \in Roots /\ r \in seats /\ c # None
        /\ call[c].at \in Building /\ call[c].at \notin Counting /\ call[c].at # "using"
        /\ call[c].at \notin Published /\ call[c].at \in Locked
    BY RegistryAssumption DEF RegistryInv, Locals, LocalOK, SeatsOwned, Building, Published,
       Leasing, Counting, Locked
  <1>3. /\ call'[c].at \notin Building \cup Teardowns \cup Locked \cup Cold
        /\ call'[c].at \notin Counting /\ call'[c].at # "using" /\ call'[c].at \in Published
    BY <1>1 DEF Building, Published, Leasing, Teardowns, Locked, Cold, Counting
  <1>4. slots'[r] = c /\ \A q \in Roots : q # r => slots'[q] = slots[q]
    BY <1>2 DEF RegistryInv, TypeOK
  <1> HIDE DEF r
  <1> USE DEF storeVars, lifecycle
  <1>5. TypeOK'
    <2>1. refs' \in [Calls -> Nat]
      BY DEF Pin, RegistryInv, TypeOK
    <2>2. slots' \in [Roots -> Calls \cup {None}] /\ seats' \in SUBSET Roots
      BY DEF RegistryInv, TypeOK
    <2> QED BY <1>1, <2>1, <2>2 DEF RegistryInv, TypeOK
  <1>6. Locals'
    <2>1. LocalOK(c)'
      BY <1>1, <1>2 DEF LocalOK, Target, Admission, Unguarded, Teardowns, Leasing, Locked,
         Cold, Counting
    <2> QED BY <1>1, <2>1, LocalsMove DEF RegistryInv
  <1>7. SeatsOwned'
    <2>1. \A q \in seats' : slots'[q] = None
      BY <1>4 DEF RegistryInv, SeatsOwned, TypeOK, r
    <2> QED BY <1>1, <1>2, <1>3, <2>1, SeatsGiven DEF RegistryInv
  <1>8. WithinCap'
    <2>1. Warm' = Warm \cup {r} /\ seats' = seats \ {r}
      BY <1>2, <1>4 DEF Warm, r
    <2> QED BY <1>2, <2>1, CapPublished DEF RegistryInv
  <1>9. LeasesCounted'
    BY <1>1, <1>2, LeasesPinned, LeasesStay DEF RegistryInv
  <1>10. SlotsPublished'
    <2>1. \A t \in Calls : refs[t] = 0 /\ call[t].at \in Published => refs'[t] = 0
      BY <1>2 DEF Pin, RegistryInv, TypeOK
    <2>2. \A q \in Roots : \/ slots'[q] \in {slots[q], None}
                           \/ slots'[q] = c /\ q = call'[c].root
      BY <1>1, <1>4
    <2> QED BY <1>1, <1>2, <1>3, <2>1, <2>2, SlotsMove DEF RegistryInv
  <1>11. TransientsCounted' /\ ShutdownFinal'
    BY <1>1, <1>2, <1>3, TransientsStay DEF RegistryInv, ShutdownFinal
  <1>12. GuardsExclude'
    BY <1>1, GuardsStay DEF RegistryInv
  <1>13. GuardsHeld'
    <2> SUFFICES ASSUME life = 1
                 PROVE  GuardsHeld'
      BY DEF GuardsHeld
    <2>1. \A d \in Calls : call[d].at \in Cold => call[d].root \in Roots
      BY ColdIsPlaced DEF RegistryInv
    <2>2. ASSUME NEW d \in Calls, call[d].at \in Cold, call[d].root = r
          PROVE  FALSE
      <3>1. call[d].held /\ Target(d) = call[d].root
        BY <2>2, ColdIsPlaced DEF RegistryInv
      <3>2. c = d
        BY <1>2, <2>2, <3>1, OneAtStorage DEF RegistryInv, r
      <3> QED BY <2>2, <3>2 DEF Cold, Counting
    <2>3. \A q \in Roots : \/ slots'[q] \in {slots[q], None}
                           \/ \A d \in Calls : call[d].at \in Cold => call[d].root # q
      BY <1>4, <2>2
    <2> QED BY <1>1, <1>3, <2>1, <2>3, HeldMove DEF RegistryInv
  <1> QED BY <1>5, <1>6, <1>7, <1>8, <1>9, <1>10, <1>11, <1>12, <1>13 DEF RegistryInv

\* A call counts, lists or gives back a transient store, beneath its guard.
LEMMA TransientKeeps ==
  ASSUME RegistryInv, NEW c \in Calls, NEW p, NEW g, NEW h, NEW v, NEW o,
         Moves(c, p, g, h, call[c].slot, v, o), LocalOK(c)',
         p \in {"opening", "using", "done"},
         call[c].at \in {"transient", "opening", "opened", "late", "using"},
         \/ /\ g = call[c].guard /\ h = call[c].held /\ v = call[c].victim
            /\ o = call[c].out /\ call[c].at \in {"transient", "opened"} /\ p # "done"
            /\ call[c].at = "transient" => ~shutting
            /\ UNCHANGED <<complete, minted>>
         \/ /\ g = None /\ h = FALSE /\ o = None /\ p = "done" /\ call[c].at # "transient"
            /\ Complete(slots, seats, transients', pending'),
         transients' \in SUBSET Calls, pending' \in Nat, open' \in SUBSET Calls,
         TransientsCounted',
         UNCHANGED <<slotVars, shutting, closer, life>>
  PROVE  RegistryInv'
  <1>1. /\ call' \in [Calls -> CallState] /\ call'[c] \in CallState
        /\ \A d \in Calls \ {c} : Kept(d)
        /\ call'[c].root = call[c].root /\ call'[c].slot = call[c].slot
        /\ call'[c].guard = g /\ call'[c].held = h
        /\ call'[c].out = o /\ call'[c].at = p
    BY DEF Moves
  <1>2. /\ call[c].at \notin Building \cup Published \cup Teardowns /\ call[c].at \in Cold
        /\ call'[c].at \notin Building \cup Teardowns
        /\ call'[c].at \in Cold \cup Locked => p # "done"
    BY <1>1 DEF Building, Published, Leasing, Teardowns, Locked, Cold, Counting
  <1>3. \/ complete' = complete /\ minted' = minted
        \/ /\ shutting /\ Drained(slots, seats, transients', pending') /\ complete' = TRUE
           /\ minted' \in [Roots -> Nat] /\ \A r \in Roots : minted'[r] = 0
    BY CompleteEffect DEF RegistryInv
  <1> USE DEF slotVars
  <1>4. TypeOK'
    <2>1. complete' \in BOOLEAN /\ minted' \in [Roots -> Nat]
      BY <1>3 DEF RegistryInv, TypeOK
    <2> QED BY <1>1, <2>1 DEF RegistryInv, TypeOK
  <1>5. Locals'
    BY <1>1, LocalsMove DEF RegistryInv
  <1>6. SeatsOwned' /\ WithinCap'
    <2>1. \A q \in seats : slots'[q] = None
      BY DEF RegistryInv, SeatsOwned
    <2> QED BY <1>1, <1>2, <2>1, SeatsStay, CapShrinks DEF RegistryInv, Warm
  <1>7. LeasesCounted' /\ SlotsPublished'
    BY <1>1, <1>2, LeasesStay, SlotsMove DEF RegistryInv
  <1>8. ShutdownFinal'
    <2>1. CASE complete' = complete /\ p = "done" /\ complete
      <3>1. Drained(slots, seats, transients, pending) /\ shutting
        BY <2>1 DEF RegistryInv, ShutdownFinal
      <3>2. NobodyLeft
        BY <3>1, DrainedHasNobody DEF RegistryInv
      <3>3. call[c].at \notin Counting /\ call[c].at # "using" /\ call[c].at # "transient"
        BY <2>1, <3>2 DEF NobodyLeft
      <3> QED BY <3>3 DEF Counting
    <2>2. CASE complete' = complete /\ p # "done" /\ complete
      <3>1. Drained(slots, seats, transients, pending) /\ shutting
        BY <2>2 DEF RegistryInv, ShutdownFinal
      <3>2. call[c].at \notin Counting
        BY <3>1, DrainedHasNobody DEF RegistryInv, NobodyLeft
      <3> QED BY <2>2, <3>1, <3>2 DEF Counting
    <2>3. CASE complete' = complete /\ ~complete
      BY <2>3 DEF ShutdownFinal
    <2> QED BY <1>3, <2>1, <2>2, <2>3 DEF ShutdownFinal, Drained
  <1>9. GuardsExclude'
    BY <1>1, GuardsStay DEF RegistryInv
  <1>10. GuardsHeld'
    <2>1. \A d \in Calls : call[d].at \in Cold => call[d].root \in Roots
      BY ColdIsPlaced DEF RegistryInv
    <2>2. \/ minted' = minted
          \/ /\ shutting' /\ \A r \in Roots : minted'[r] = 0
             /\ \A d \in Calls : call'[d].at \notin Locked
      <3>1. CASE Drained(slots, seats, transients', pending')
        <4>1. Drained(slots, seats, transients, pending)'
          BY <3>1 DEF Drained
        <4> QED BY <1>3, <1>6, <4>1, DrainedHasNobodyNext
      <3> QED BY <1>3, <3>1
    <2>3. call[c].held /\ Target(c) = call[c].root
      BY <1>2, ColdIsPlaced DEF RegistryInv
    <2>4. p # "done" => Target(c)' = Target(c)
      BY <1>1, <2>3 DEF Target
    <2>5. call[c].at = "opened" => call[c].at \in Locked
      BY DEF Locked, Counting
    <2> QED BY <1>1, <1>2, <2>1, <2>2, <2>3, <2>4, <2>5, HeldMove DEF RegistryInv
  <1> QED BY <1>4, <1>5, <1>6, <1>7, <1>8, <1>9, <1>10 DEF RegistryInv

----------------------------------------------------------------------------
(* Shutdown and restart.                                                    *)

\* A shutdown begins and wakes everybody.
LEMMA BeginShutdownKeeps ==
  ASSUME RegistryInv, BeginShutdown
  PROVE  RegistryInv'
  <1> USE DEF RegistryInv, BeginShutdown, slotVars, storeVars
  <1>1. \A d \in Calls : call'[d] \in CallState /\ Kept(d)
    <2> SUFFICES ASSUME NEW d \in Calls
                 PROVE  call'[d] \in CallState /\ Kept(d)
      OBVIOUS
    <2>1. call[d] \in CallState /\ {"reserve", "woken"} \subseteq Points
      BY DEF TypeOK, Points, Unguarded
    <2>2. call'[d] = CASE call[d].at = "joining" -> [call[d] EXCEPT !.at = "reserve"]
                       [] call[d].at = "waiting" -> [call[d] EXCEPT !.at = "woken"]
                       [] OTHER -> call[d]
      BY DEF Notified
    <2>3. CASE call[d].at = "joining"
      <3>1. call'[d] = [call[d] EXCEPT !.at = "reserve"]
        BY <2>2, <2>3
      <3> QED BY <2>1, <2>3, <3>1 DEF CallState, Kept
    <2>4. CASE call[d].at = "waiting"
      <3>1. call'[d] = [call[d] EXCEPT !.at = "woken"]
        BY <2>2, <2>4
      <3> QED BY <2>1, <2>4, <3>1 DEF CallState, Kept
    <2>5. CASE call[d].at \notin {"joining", "waiting"}
      BY <2>1, <2>2, <2>5 DEF Kept
    <2> QED BY <2>3, <2>4, <2>5
  <1>2. \A d \in Calls :
          /\ call'[d].root = call[d].root /\ call'[d].guard = call[d].guard
          /\ call'[d].held = call[d].held /\ call'[d].slot = call[d].slot
          /\ call'[d].out = call[d].out /\ Target(d)' = Target(d)
          /\ call'[d].at = "using" <=> call[d].at = "using"
          /\ \A P \in {Building, Published, Teardowns, Locked, Cold, Counting} :
                call'[d].at \in P <=> call[d].at \in P
    BY <1>1, KeptPoint DEF Kept
  <1>3. TypeOK'
    <2>1. call' = [d \in Calls |-> call'[d]]
      BY DEF Notified
    <2> QED BY <1>1, <2>1 DEF TypeOK
  <1>4. Locals'
    BY <1>1, LocalKept DEF Locals
  <1>5. SeatsOwned' /\ WithinCap'
    BY <1>2, CapShrinks DEF SeatsOwned, Warm
  <1>6. LeasesCounted'
    <2>1. \A s \in Calls : Lessees(s)' = Lessees(s)
      BY <1>2 DEF Lessees
    <2> QED BY <2>1 DEF LeasesCounted
  <1>7. SlotsPublished'
    <2>1. /\ \A r \in Roots : slots[r] \in Calls \cup {None}
          /\ \A d \in Calls : call[d].slot \in Calls \cup {None} /\ call[d].out \in Calls \cup {None}
          /\ \A d \in Calls : call[d].at \in Teardowns => call[d].out # None
      BY DEF TypeOK, CallState, Locals, LocalOK
    <2> QED BY <1>2, <2>1 DEF SlotsPublished
  <1>8. TransientsCounted'
    <2>1. Makers' = Makers
      BY <1>2 DEF Makers
    <2> QED BY <1>2, <2>1 DEF TransientsCounted
  <1>9. ShutdownFinal' /\ GuardsExclude'
    BY <1>2 DEF ShutdownFinal, GuardsExclude
  <1>10. GuardsHeld'
    <2> SUFFICES ASSUME life = 1
                 PROVE  GuardsHeld'
      BY DEF GuardsHeld
    <2>1. \A d \in Calls : call'[d].guard # None => call'[d].guard = <<Target(d)', 1>>
      BY <1>2 DEF GuardsHeld
    <2>2. \A d \in Calls : call'[d].at \in Locked =>
              call'[d].guard # None /\ minted'[call'[d].root] = 1
      BY <1>2 DEF GuardsHeld
    <2>3. ~shutting /\ shutting'
      OBVIOUS
    <2>4. \A d \in Calls : ~(call'[d].held /\ call'[d].guard = None)
      BY <1>2, <2>3 DEF GuardsHeld
    <2>5. \A d \in Calls : call'[d].at \in Cold => slots'[call'[d].root] = None
      BY <1>2 DEF GuardsHeld
    <2> QED BY <2>1, <2>2, <2>3, <2>4, <2>5 DEF GuardsHeld
  <1> QED BY <1>3, <1>4, <1>5, <1>6, <1>7, <1>8, <1>9, <1>10

\* The stores are closed; that may end the shutdown.
LEMMA CloseStoresKeeps ==
  ASSUME RegistryInv, CloseStores
  PROVE  RegistryInv'
  <1> USE DEF RegistryInv, CloseStores
  <1>1. \/ complete' = complete /\ minted' = minted
        \/ /\ shutting /\ Drained(slots', seats, transients, pending) /\ complete' = TRUE
           /\ minted' \in [Roots -> Nat] /\ \A r \in Roots : minted'[r] = 0
    BY CompleteEffect
  <1>2. \A r \in Roots : slots'[r] = None
    OBVIOUS
  <1>3. TypeOK'
    <2>1. complete' \in BOOLEAN /\ minted' \in [Roots -> Nat]
      BY <1>1 DEF TypeOK
    <2> QED BY <2>1 DEF TypeOK
  <1>4. Locals'
    BY DEF Locals, LocalOK, Target
  <1>5. SeatsOwned'
    BY <1>2 DEF SeatsOwned, TypeOK
  <1>6. WithinCap'
    BY <1>2, CapShrinks DEF Warm
  <1>7. LeasesCounted' /\ TransientsCounted'
    BY DEF LeasesCounted, Lessees, TransientsCounted, Makers
  <1>8. SlotsPublished'
    BY <1>2 DEF SlotsPublished, Target
  <1>9. ShutdownFinal'
    BY <1>1, <1>2 DEF ShutdownFinal, Drained
  <1>10. GuardsExclude'
    BY DEF GuardsExclude
  <1>11. GuardsHeld'
    <2> SUFFICES ASSUME life = 1
                 PROVE  GuardsHeld'
      BY DEF GuardsHeld
    <2>1. \A d \in Calls : call[d].at \in Cold => slots'[call[d].root] = None
      BY <1>2, ColdIsPlaced
    <2>2. CASE minted' = minted
      BY <2>1, <2>2 DEF GuardsHeld, Target
    <2>3. CASE /\ shutting /\ Drained(slots', seats, transients, pending)
               /\ \A r \in Roots : minted'[r] = 0
      <3>1. Drained(slots, seats, transients, pending)'
        BY <2>3 DEF Drained
      <3>2. \A d \in Calls : call[d].at \notin Locked
        BY <1>5, <1>7, <3>1, DrainedHasNobodyNext
      <3> QED BY <2>1, <2>3, <3>2 DEF GuardsHeld, Target
    <2> QED BY <1>1, <2>2, <2>3
  <1> QED BY <1>3, <1>4, <1>5, <1>6, <1>7, <1>8, <1>9, <1>10, <1>11

\* The registry is opened again: what guards promise is of the first life only.
LEMMA PrepareStartupKeeps ==
  ASSUME RegistryInv, PrepareStartup
  PROVE  RegistryInv'
  <1> USE DEF RegistryInv, PrepareStartup, slotVars, storeVars
  <1>1. TypeOK' /\ life' # 1
    <2>1. life \in Nat \ {0} /\ life' = life + 1
      BY DEF TypeOK
    <2>2. life' \in Nat \ {0} /\ life' # 1
      BY <2>1
    <2>3. shutting' \in BOOLEAN /\ complete' \in BOOLEAN
      OBVIOUS
    <2> QED BY <2>2, <2>3 DEF TypeOK
  <1>2. Locals' /\ SeatsOwned'
    BY DEF Locals, LocalOK, Target, SeatsOwned
  <1>3. WithinCap' /\ LeasesCounted' /\ TransientsCounted'
    <2>1. Warm' = Warm /\ Makers' = Makers /\ \A s \in Calls : Lessees(s)' = Lessees(s)
      BY DEF Warm, Makers, Lessees
    <2> QED BY <2>1 DEF WithinCap, LeasesCounted, TransientsCounted
  <1>4. SlotsPublished' /\ ShutdownFinal' /\ GuardsExclude' /\ GuardsHeld'
    BY <1>1 DEF SlotsPublished, Target, ShutdownFinal, GuardsExclude, GuardsHeld
  <1> QED BY <1>1, <1>2, <1>3, <1>4

----------------------------------------------------------------------------
(* The actions.                                                             *)

\* A step that changes neither what calls share nor any store.
Untouched == UNCHANGED <<slotVars, storeVars, minted, lifecycle>>

\* A step that leaves the registry alone.
LEMMA UntouchedIsSmall ==
  ASSUME RegistryInv, Untouched
  PROVE  /\ UNCHANGED <<slotVars, transients, pending, minted, lifecycle>>
         /\ open' \in SUBSET Calls
  BY DEF Untouched, storeVars, RegistryInv, TypeOK

\* A call that is refused, ...
LEMMA RefuseKeeps ==
  ASSUME RegistryInv, NEW c \in Calls, Refuse(c),
         call[c].at \in {"reserve", "gap", "replace", "pin", "cold", "maintain", "transient"}
  PROVE  RegistryInv'
  BY ReturnKeeps, UntouchedIsSmall DEF Refuse, Untouched

\* ... that reserves, ...
LEMMA ReserveKeeps ==
  ASSUME RegistryInv, NEW c \in Calls, Reserve(c)
  PROVE  RegistryInv'
  <1>1. call[c].at = "reserve"
    BY DEF Reserve
  <1>2. CASE Refuse(c) \/ AdoptWarm(c) \/ TakeSeat(c)
    BY <1>1, <1>2, RefuseKeeps, AdoptWarmKeeps, TakeSeatKeeps
  <1>3. CASE Untouched /\ (call' = Goto(c, "joining") \/ call' = Goto(c, "gap"))
    BY <1>1, <1>3, GotoKeeps, UntouchedIsSmall
  <1>4. ASSUME Untouched, NEW v \in Unleased, call' = [Goto(c, "replace") EXCEPT ![c].victim = v]
        PROVE  RegistryInv'
    <2>1. v \in Roots
      BY DEF Unleased
    <2> QED BY <1>1, <1>4, <2>1, ChooseVictimKeeps, UntouchedIsSmall
  <1> QED BY <1>2, <1>3, <1>4 DEF Reserve, Untouched

\* ... that resolves a gap in the slots, ...
LEMMA ResolveGapKeeps ==
  ASSUME RegistryInv, NEW c \in Calls, ResolveGap(c)
  PROVE  RegistryInv'
  <1>1. call[c].at = "gap"
    BY DEF ResolveGap, In
  <1>2. CASE Refuse(c) \/ AdoptWarm(c) \/ TakeSeat(c)
    BY <1>1, <1>2, RefuseKeeps, AdoptWarmKeeps, TakeSeatKeeps
  <1>3. CASE Untouched /\ call' = Goto(c, "waiting")
    BY <1>1, <1>3, GotoKeeps, UntouchedIsSmall
  <1>4. CASE Untouched /\ call' = Leave(c, "reserve")
    BY <1>1, <1>4, LeaveKeeps, UntouchedIsSmall
  <1>5. CASE Untouched /\ call' = Return(c)
    BY <1>1, <1>5, ReturnKeeps, UntouchedIsSmall
  <1> QED BY <1>2, <1>3, <1>4, <1>5 DEF ResolveGap, Untouched

\* ... that replaces a slot, ...
LEMMA ReplaceVictimKeeps ==
  ASSUME RegistryInv, NEW c \in Calls, ReplaceVictim(c)
  PROVE  RegistryInv'
  <1>1. call[c].at = "replace" /\ call[c].held
    BY DEF ReplaceVictim, In
  <1>2. CASE Refuse(c) \/ AdoptWarm(c) \/ TakeSeat(c)
    BY <1>1, <1>2, RefuseKeeps, AdoptWarmKeeps, TakeSeatKeeps
  <1>3. CASE Untouched /\ call' = Leave(c, "reserve")
    BY <1>1, <1>3, LeaveKeeps, UntouchedIsSmall
  <1>4. CASE Untouched /\ call' = Return(c)
    BY <1>1, <1>4, ReturnKeeps, UntouchedIsSmall
  <1>5. CASE /\ MustWait(c) /\ call[c].victim \in Unleased
             /\ TakeOut(c, call[c].victim, "replaced")
             /\ seats' = seats \cup {call[c].root}
             /\ UNCHANGED <<refs, storeVars, minted, lifecycle>>
    <2>1. Target(c) = call[c].victim
      BY <1>1 DEF Target
    <2> QED BY <1>1, <1>5, <2>1, TakeOutKeeps DEF MustWait
  <1> QED BY <1>2, <1>3, <1>4, <1>5 DEF ReplaceVictim, Untouched

\* ... that constructs a slot, ...
LEMMA BuildKeeps ==
  ASSUME RegistryInv, NEW c \in Calls,
         StartBuild(c) \/ BuildSlot(c) \/ PublishSlot(c) \/ DiscardSlot(c)
  PROVE  RegistryInv'
  <1>1. CASE StartBuild(c)
    <2>1. call[c].at = "construct" /\ call[c].held /\ call[c].at \in Building
      BY <1>1 DEF StartBuild, In, Building
    <2>2. CASE ReleaseSeat(c) /\ UNCHANGED <<refs, storeVars>>
      <3>1. UNCHANGED <<refs, transients, pending>> /\ open' \in SUBSET Calls
        BY <2>2 DEF storeVars, RegistryInv, TypeOK
      <3> QED BY <2>1, <2>2, <3>1, ReleaseSeatKeeps
    <2>3. CASE ~shutting /\ call' = Goto(c, "building") /\ Untouched
      BY <2>1, <2>3, GotoKeeps, UntouchedIsSmall
    <2> QED BY <1>1, <2>2, <2>3 DEF StartBuild, Untouched
  <1>2. CASE BuildSlot(c)
    <2>1. call[c].at = "building" /\ call[c].at \in Building
      BY <1>2 DEF BuildSlot, Building
    <2>2. CASE /\ open' = open \cup {c} /\ call' = Goto(c, "built")
               /\ UNCHANGED <<slotVars, transients, pending, minted, lifecycle>>
      <3>1. open' \in SUBSET Calls
        BY <2>2 DEF RegistryInv, TypeOK
      <3> QED BY <2>1, <2>2, <3>1, GotoKeeps
    <2>3. CASE ReleaseSeat(c) /\ UNCHANGED <<refs, storeVars>>
      <3>1. UNCHANGED <<refs, transients, pending>> /\ open' \in SUBSET Calls
        BY <2>3 DEF storeVars, RegistryInv, TypeOK
      <3> QED BY <2>1, <2>3, <3>1, ReleaseSeatKeeps
    <2> QED BY <1>2, <2>2, <2>3 DEF BuildSlot
  <1>3. CASE PublishSlot(c)
    <2>1. call[c].at = "built"
      BY <1>3 DEF PublishSlot
    <2>2. CASE shutting /\ call' = Goto(c, "discarding") /\ Untouched
      BY <2>1, <2>2, GotoKeeps, UntouchedIsSmall
    <2>3. CASE /\ ~shutting /\ slots' = [slots EXCEPT ![call[c].root] = c]
               /\ seats' = seats \ {call[c].root}
               /\ UNCHANGED <<storeVars, minted, lifecycle>>
      <3>1. CASE UNCHANGED refs /\ call' = Notified(Return(c))
        <4>1. Moves(c, "done", None, FALSE, None, None, None)
          BY <3>1, ReturnMoves DEF RegistryInv
        <4> QED BY <2>1, <2>3, <3>1, <4>1, PublishKeeps
      <3>2. CASE Pin(c) /\ call' = Notified([Leave(c, "sweeping") EXCEPT ![c].slot = c])
        <4>1. PICK f \in CallState :
                /\ [Leave(c, "sweeping") EXCEPT ![c].slot = c] = [call EXCEPT ![c] = f]
                /\ f.op = call[c].op /\ f.at = "sweeping" /\ f.root = call[c].root
                /\ f.guard = None /\ f.held = FALSE /\ f.slot = c
                /\ f.victim = None /\ f.out = None
          BY LeaveLeasing DEF RegistryInv
        <4>2. call' = Notified([call EXCEPT ![c] = f])
          BY <3>2, <4>1
        <4>3. f.at \notin {"joining", "waiting"}
          BY <4>1
        <4>4. TypeOK
          BY DEF RegistryInv
        <4>5. Moves(c, f.at, f.guard, f.held, f.slot, f.victim, f.out)
          BY <4>1, <4>2, <4>3, <4>4, OneMovesAndWakes
        <4>6. Moves(c, "sweeping", None, FALSE, c, None, None)
          BY <4>1, <4>5
        <4> QED BY <2>1, <2>3, <3>2, <4>6, PublishKeeps
      <3> QED BY <1>3, <2>3, <3>1, <3>2 DEF PublishSlot
    <2> QED BY <1>3, <2>2, <2>3 DEF PublishSlot, Untouched
  <1>4. CASE DiscardSlot(c)
    <2>1. /\ call[c].at \in Building /\ ReleaseSeat(c)
          /\ UNCHANGED <<refs, transients, pending>> /\ open' \in SUBSET Calls
      BY <1>4 DEF DiscardSlot, Building, RegistryInv, TypeOK
    <2> QED BY <2>1, ReleaseSeatKeeps
  <1> QED BY <1>1, <1>2, <1>3, <1>4

\* ... that sweeps idle slots or gives its lease back, ...
LEMMA SweepKeeps ==
  ASSUME RegistryInv, NEW c \in Calls, StartSweep(c) \/ SweepOne(c) \/ ReleaseLease(c)
  PROVE  RegistryInv'
  <1>1. CASE StartSweep(c)
    <2>1. PICK idle \in SUBSET Unleased : NextVictim(c, idle)
      BY <1>1 DEF StartSweep
    <2>2. idle \in SUBSET Roots
      BY DEF Unleased
    <2> QED BY <1>1, <2>1, <2>2, NextVictimKeeps, UntouchedIsSmall DEF StartSweep, Untouched
  <1>2. CASE SweepOne(c)
    <2>1. call[c].at = "sweep" /\ call[c].held /\ call[c].sweep \in SUBSET Roots
      BY <1>2 DEF SweepOne, In, RegistryInv, TypeOK, CallState
    <2>2. CASE NextVictim(c, call[c].sweep) /\ UNCHANGED slots
      <3>1. Untouched
        BY <1>2, <2>2 DEF SweepOne, Untouched, slotVars
      <3> QED BY <2>1, <2>2, <3>1, NextVictimKeeps, UntouchedIsSmall
    <2>3. CASE call[c].victim \in Unleased /\ TakeOut(c, call[c].victim, "swept")
      <3>1. Target(c) = call[c].victim
        BY <2>1 DEF Target
      <3> QED BY <1>2, <2>1, <2>3, <3>1, TakeOutKeeps DEF SweepOne
    <2> QED BY <1>2, <2>2, <2>3 DEF SweepOne
  <1>3. CASE ReleaseLease(c)
    BY <1>3, UnleasingKeeps DEF ReleaseLease
  <1> QED BY <1>1, <1>2, <1>3

\* ... that closes a slot, ...
LEMMA TeardownKeeps ==
  ASSUME RegistryInv, NEW c \in Calls, Teardown(c) \/ TeardownRaises(c)
  PROVE  RegistryInv'
  <1>1. CASE Teardown(c)
    <2>1. /\ UNCHANGED <<slotVars, transients, pending, minted, lifecycle>>
          /\ open' \in SUBSET Calls /\ call[c].sweep \in SUBSET Roots
      BY <1>1 DEF Teardown, RegistryInv, TypeOK, CallState
    <2>2. CASE call[c].at = "replaced" /\ call' = Leave(c, "construct")
      BY <2>1, <2>2, LeaveKeeps
    <2>3. CASE call[c].at = "swept" /\ NextVictim(c, call[c].sweep)
      BY <2>1, <2>3, NextVictimKeeps
    <2>4. CASE call[c].at = "evicted" /\ call' = Return(c)
      BY <2>1, <2>4, ReturnKeeps
    <2>5. CASE /\ call[c].at = "emptied"
               /\ call' = [Goto(c, "transient") EXCEPT ![c].out = None]
      <3>1. Moves(c, "transient", call[c].guard, call[c].held, call[c].slot, call[c].victim, None)
        BY <2>5, EmptiedMoves DEF RegistryInv
      <3>2. LocalOK(c)
        BY DEF RegistryInv, Locals
      <3>3. LocalOK(c)'
        BY <2>5, <3>1, <3>2 DEF Moves, LocalOK, Target, Admission, Unguarded, Teardowns, Leasing,
           Locked, Cold, Counting
      <3>4. Quiet(c)
        BY <2>5, <3>1, <3>3 DEF Quiet, Moves, Target, Teardowns, Building, Leasing, Published,
           Locked, Cold, Counting
      <3> QED BY <2>1, <3>4, QuietKeeps
    <2> QED BY <1>1, <2>2, <2>3, <2>4, <2>5 DEF Teardown
  <1>2. CASE TeardownRaises(c)
    <2>1. UNCHANGED storeVars /\ open' \in SUBSET Calls
      BY <1>2 DEF TeardownRaises, storeVars, RegistryInv, TypeOK
    <2>2. CASE call[c].at = "replaced" /\ ReleaseSeat(c) /\ UNCHANGED refs
      BY <2>1, <2>2, ReleaseSeatKeeps DEF Building, storeVars
    <2>3. CASE /\ call[c].at = "swept" /\ Unpin(call[c].slot) /\ call' = Return(c)
               /\ UNCHANGED <<slots, seats, minted, lifecycle>>
      BY <2>1, <2>3, UnleasingKeeps
    <2>4. CASE /\ call[c].at \in {"evicted", "emptied"} /\ call' = Return(c)
               /\ UNCHANGED <<slotVars, minted, lifecycle>>
      BY <2>1, <2>4, ReturnKeeps DEF storeVars
    <2> QED BY <1>2, <2>2, <2>3, <2>4 DEF TeardownRaises
  <1> QED BY <1>1, <1>2

\* ... that leases a store without a model, maintains or evicts a root, ...
LEMMA ColdStoreKeeps ==
  ASSUME RegistryInv, NEW c \in Calls,
         PinWarmSlot(c) \/ LeaseCold(c) \/ Maintain(c) \/ TryEvict(c)
  PROVE  RegistryInv'
  <1>1. CASE PinWarmSlot(c)
    <2>1. call[c].at = "pin"
      BY <1>1 DEF PinWarmSlot
    <2>2. CASE Refuse(c) \/ AdoptWarm(c)
      BY <2>1, <2>2, RefuseKeeps, AdoptWarmKeeps
    <2>3. CASE call' = Goto(c, "cold") /\ Untouched
      BY <2>1, <2>3, GotoKeeps, UntouchedIsSmall
    <2> QED BY <1>1, <2>2, <2>3 DEF PinWarmSlot, Untouched
  <1>2. CASE LeaseCold(c)
    <2>1. call[c].at = "cold" /\ call[c].held
      BY <1>2 DEF LeaseCold, In
    <2>2. CASE Refuse(c) \/ AdoptWarm(c)
      BY <2>1, <2>2, RefuseKeeps, AdoptWarmKeeps
    <2>3. CASE Missing(c) /\ call' = Goto(c, "transient") /\ Untouched
      BY <2>1, <2>3, GotoKeeps, UntouchedIsSmall DEF Missing
    <2> QED BY <1>2, <2>2, <2>3 DEF LeaseCold, Untouched
  <1>3. CASE Maintain(c)
    <2>1. call[c].at = "maintain" /\ call[c].held
      BY <1>3 DEF Maintain, In
    <2>2. CASE Refuse(c)
      BY <2>1, <2>2, RefuseKeeps
    <2>3. CASE /\ call[c].root \in Unleased /\ TakeOut(c, call[c].root, "emptied")
               /\ UNCHANGED <<seats, refs, storeVars, minted, lifecycle>>
      <3>1. Target(c) = call[c].root
        BY <2>1 DEF Target
      <3> QED BY <2>1, <2>3, <3>1, TakeOutKeeps
    <2>4. CASE slots[call[c].root] = None /\ call' = Goto(c, "transient") /\ Untouched
      BY <2>1, <2>4, GotoKeeps, UntouchedIsSmall
    <2>5. CASE call' = Return(c) /\ Untouched
      BY <2>1, <2>5, ReturnKeeps, UntouchedIsSmall
    <2> QED BY <1>3, <2>2, <2>3, <2>4, <2>5 DEF Maintain, Untouched
  <1>4. CASE TryEvict(c)
    <2>1. call[c].at = "evict" /\ call[c].held
      BY <1>4 DEF TryEvict, In
    <2>2. CASE call[c].root \in Unleased /\ TakeOut(c, call[c].root, "evicted")
      <3>1. Target(c) = call[c].root
        BY <2>1 DEF Target
      <3> QED BY <1>4, <2>1, <2>2, <3>1, TakeOutKeeps DEF TryEvict
    <2>3. CASE call' = Return(c) /\ UNCHANGED slots
      <3>1. Untouched
        BY <1>4, <2>3 DEF TryEvict, Untouched, slotVars
      <3> QED BY <2>1, <2>3, <3>1, ReturnKeeps, UntouchedIsSmall
    <2> QED BY <1>4, <2>2, <2>3 DEF TryEvict
  <1> QED BY <1>1, <1>2, <1>3, <1>4

\* ... that uses a transient store, ...
LEMMA TransientStoreKeeps ==
  ASSUME RegistryInv, NEW c \in Calls,
         StartTransient(c) \/ OpenTransient(c) \/ RegisterTransient(c) \/ CloseTransient(c)
  PROVE  RegistryInv'
  <1>1. /\ LocalOK(c) /\ pending \in Nat /\ open \in SUBSET Calls /\ transients \in SUBSET Calls
        /\ call[c].at \in {"transient", "opening", "opened", "late", "using"}
    BY DEF RegistryInv, Locals, TypeOK, StartTransient, OpenTransient, RegisterTransient,
       CloseTransient
  <1>2. call[c].slot = None /\ call[c].at \notin Building
    BY <1>1 DEF LocalOK, Leasing, Building
  <1>3. call[c].at \in Counting => pending > 0
    <2>1. call[c].at \in Counting => c \in Makers
      BY DEF Makers
    <2>2. IsFiniteSet(Makers) /\ pending = Cardinality(Makers)
      BY DEF RegistryInv, TransientsCounted
    <2>3. c \in Makers => Cardinality(Makers) > 0
      BY <2>2, OneLess
    <2> QED BY <2>1, <2>2, <2>3
  <1>4. ASSUME NEW n, EndTransient(c, n),
               \/ call[c].at \in {"opening", "late"} /\ n = pending - 1
               \/ call[c].at = "using" /\ n = pending
        PROVE  RegistryInv'
    <2>1. Moves(c, "done", None, FALSE, None, None, None)
      BY <1>4, ReturnMoves DEF RegistryInv, EndTransient
    <2>2. LocalOK(c)'
      BY <2>1 DEF Moves, LocalOK, Target, Admission, Unguarded, Teardowns, Leasing, Locked,
         Cold, Counting
    <2>3. transients' = transients \ {c} /\ pending' = n
      BY <1>4 DEF EndTransient
    <2>4. pending' \in Nat /\ transients' \in SUBSET Calls /\ open' \in SUBSET Calls
      BY <1>1, <1>3, <1>4, <2>3 DEF EndTransient, Counting
    <2>5. TransientsCounted'
      <3>1. call'[c].at = "done" /\ \A d \in Calls \ {c} : Kept(d)
        BY <2>1 DEF Moves
      <3>2. CASE call[c].at = "using" /\ n = pending
        BY <2>3, <3>1, <3>2, TransientsEnded DEF RegistryInv
      <3>3. CASE call[c].at \in {"opening", "late"} /\ n = pending - 1
        <4>1. call[c].at \in Counting /\ call'[c].at \notin Counting /\ call'[c].at # "using"
          BY <3>1, <3>3 DEF Counting
        <4> QED BY <2>3, <3>1, <3>3, <4>1, TransientsMade DEF RegistryInv
      <3> QED BY <1>4, <3>2, <3>3
    <2>6. /\ UNCHANGED <<slotVars, shutting, closer, life>>
          /\ Complete(slots, seats, transients', pending')
      BY <1>4, <2>3 DEF EndTransient
    <2> QED BY <1>2, <1>4, <2>1, <2>2, <2>4, <2>5, <2>6, TransientKeeps
  <1>5. CASE StartTransient(c)
    <2>1. call[c].at = "transient"
      BY <1>5 DEF StartTransient
    <2>2. CASE Refuse(c)
      BY <2>1, <2>2, RefuseKeeps
    <2>3. CASE /\ ~shutting /\ pending' = pending + 1 /\ call' = Goto(c, "opening")
               /\ UNCHANGED <<slotVars, transients, open, minted, lifecycle>>
      <3>1. Moves(c, "opening", call[c].guard, call[c].held, call[c].slot, call[c].victim,
                  call[c].out)
        <4>1. "opening" \in Points
          BY DEF Points, Locked, Counting
        <4> QED BY <2>3, <4>1, GotoMoves DEF RegistryInv
      <3>2. LocalOK(c)'
        BY <1>1, <1>2, <2>1, <3>1 DEF Moves, LocalOK, Target, Admission, Unguarded, Teardowns,
           Leasing, Locked, Cold, Counting
      <3>3. TransientsCounted'
        BY <2>1, <2>3, <3>1, TransientsStarted DEF Moves, RegistryInv
      <3>4. pending' \in Nat /\ transients' \in SUBSET Calls /\ open' \in SUBSET Calls
        BY <1>1, <2>3
      <3> QED BY <2>1, <2>3, <3>1, <3>2, <3>3, <3>4, TransientKeeps DEF lifecycle
    <2> QED BY <1>5, <2>2, <2>3 DEF StartTransient
  <1>6. CASE OpenTransient(c)
    <2>1. CASE /\ open' = open \cup {c} /\ call' = Goto(c, "opened")
               /\ UNCHANGED <<slotVars, transients, pending, minted, lifecycle>>
      BY <1>1, <1>6, <2>1, GotoKeeps DEF OpenTransient
    <2>2. CASE EndTransient(c, pending - 1)
      BY <1>4, <1>6, <2>2 DEF OpenTransient
    <2> QED BY <1>6, <2>1, <2>2 DEF OpenTransient
  <1>7. CASE RegisterTransient(c)
    <2>1. call[c].at = "opened"
      BY <1>7 DEF RegisterTransient
    <2>2. CASE /\ transients' = transients \cup {c} /\ pending' = pending - 1
               /\ call' = Goto(c, "using")
               /\ UNCHANGED <<slotVars, open, minted, lifecycle>>
      <3>1. Moves(c, "using", call[c].guard, call[c].held, call[c].slot, call[c].victim,
                  call[c].out)
        <4>1. "using" \in Points
          BY DEF Points, Locked
        <4> QED BY <2>2, <4>1, GotoMoves DEF RegistryInv
      <3>2. LocalOK(c)'
        BY <1>1, <1>2, <2>1, <3>1 DEF Moves, LocalOK, Target, Admission, Unguarded, Teardowns,
           Leasing, Locked, Cold, Counting
      <3>3. call[c].at \in Counting /\ call'[c].at \notin Counting /\ call'[c].at = "using"
        BY <2>1, <3>1 DEF Moves, Counting
      <3>4. TransientsCounted'
        BY <2>2, <3>1, <3>3, TransientsMade DEF Moves, RegistryInv
      <3>5. pending' \in Nat /\ transients' \in SUBSET Calls /\ open' \in SUBSET Calls
        BY <1>1, <1>3, <2>2, <3>3
      <3> QED BY <2>1, <2>2, <3>1, <3>2, <3>4, <3>5, TransientKeeps DEF lifecycle
    <2>3. CASE call' = Goto(c, "late") /\ Untouched
      BY <2>1, <2>3, GotoKeeps, UntouchedIsSmall
    <2>4. \/ /\ transients' = transients \cup {c} /\ pending' = pending - 1
             /\ call' = Goto(c, "using")
          \/ call' = Goto(c, "late") /\ UNCHANGED <<transients, pending>>
      BY <1>7 DEF RegisterTransient
    <2>5. UNCHANGED <<slotVars, open, minted, lifecycle>>
      BY <1>7 DEF RegisterTransient
    <2> QED BY <2>2, <2>3, <2>4, <2>5 DEF Untouched, storeVars
  <1>8. CASE CloseTransient(c)
    BY <1>4, <1>8 DEF CloseTransient
  <1> QED BY <1>5, <1>6, <1>7, <1>8

\* ... or that wakes up.
LEMMA WakeUpKeeps ==
  ASSUME RegistryInv, NEW c \in Calls, WakeUp(c)
  PROVE  RegistryInv'
  BY LeaveKeeps, UntouchedIsSmall DEF WakeUp, Untouched

----------------------------------------------------------------------------
(* The specification.                                                       *)

LEMMA InitEstablishes == Init => RegistryInv
  <1> SUFFICES ASSUME Init
               PROVE  RegistryInv
    OBVIOUS
  <1> USE DEF Init
  <1>1. /\ \A c \in Calls : /\ call[c].at = "start" /\ call[c].guard = None
                            /\ call[c].held = FALSE /\ call[c].slot = None /\ call[c].out = None
        /\ call \in [Calls -> CallState]
    <2>1. NewCall \in CallState
      BY DEF NewCall, CallState, Points, Unguarded
    <2> QED BY <2>1 DEF NewCall
  <1>2. TypeOK
    <2>1. slots \in [Roots -> Calls \cup {None}] /\ seats \in SUBSET Roots
      OBVIOUS
    <2>2. refs \in [Calls -> Nat] /\ minted \in [Roots -> Nat]
      OBVIOUS
    <2>3. pending \in Nat /\ life \in Nat \ {0} /\ transients \in SUBSET Calls /\ open \in SUBSET Calls
      OBVIOUS
    <2> QED BY <1>1, <2>1, <2>2, <2>3 DEF TypeOK
  <1>3. Locals
    BY <1>1 DEF Locals, LocalOK, Target, Admission, Unguarded, Teardowns, Leasing, Locked,
       Cold, Counting
  <1>4. SeatsOwned
    BY <1>1 DEF SeatsOwned, Building
  <1>5. WithinCap
    <2>1. Warm = {}
      BY DEF Warm
    <2> QED BY <2>1, FS_EmptySet, RegistryAssumption DEF WithinCap
  <1>6. LeasesCounted
    <2>1. \A s \in Calls : Lessees(s) = {} /\ refs[s] = 0
      BY <1>1, RegistryAssumption DEF Lessees
    <2> QED BY <2>1, FS_EmptySet DEF LeasesCounted
  <1>7. SlotsPublished
    BY <1>1 DEF SlotsPublished, Teardowns
  <1>8. TransientsCounted
    <2>1. Makers = {}
      BY <1>1 DEF Makers, Counting
    <2> QED BY <1>1, <2>1, FS_EmptySet DEF TransientsCounted
  <1>9. ShutdownFinal /\ GuardsExclude
    BY <1>1 DEF ShutdownFinal, GuardsExclude
  <1>10. GuardsHeld
    BY <1>1 DEF GuardsHeld, Locked, Cold, Counting
  <1> QED BY <1>2, <1>3, <1>4, <1>5, <1>6, <1>7, <1>8, <1>9, <1>10 DEF RegistryInv

\* Every step of the specification keeps the invariant.
LEMMA NextKeeps ==
  ASSUME RegistryInv, [Next]_registryVars
  PROVE  RegistryInv'
  <1>1. ASSUME NEW c \in Calls, Proceed(c)
        PROVE  RegistryInv'
    BY <1>1, FetchGuardKeeps, EnterGuardKeeps, ReserveKeeps, ResolveGapKeeps, WakeUpKeeps,
       ReplaceVictimKeeps, BuildKeeps, SweepKeeps, TeardownKeeps, ColdStoreKeeps,
       TransientStoreKeeps DEF Proceed
  <1>2. CASE UNCHANGED registryVars
    <2>1. UNCHANGED <<slots, seats, refs, transients, pending, open, minted, shutting, complete,
                      closer, life, call>>
      BY <1>2 DEF registryVars, slotVars, storeVars, lifecycle
    <2>2. TypeOK' /\ Locals' /\ SeatsOwned'
      BY <2>1 DEF RegistryInv, TypeOK, Locals, LocalOK, Target, SeatsOwned
    <2>3. WithinCap' /\ LeasesCounted' /\ TransientsCounted'
      <3>1. Warm' = Warm /\ Makers' = Makers /\ \A s \in Calls : Lessees(s)' = Lessees(s)
        BY <2>1 DEF Warm, Makers, Lessees
      <3> QED BY <2>1, <3>1 DEF RegistryInv, WithinCap, LeasesCounted, TransientsCounted
    <2>4. SlotsPublished' /\ ShutdownFinal' /\ GuardsExclude'
      BY <2>1 DEF RegistryInv, SlotsPublished, Target, ShutdownFinal, Drained, GuardsExclude
    <2>5. GuardsHeld'
      BY <2>1 DEF RegistryInv, GuardsHeld, Target
    <2> QED BY <2>2, <2>3, <2>4, <2>5 DEF RegistryInv
  <1> QED BY <1>1, <1>2, BeginKeeps, BeginShutdownKeeps, CloseStoresKeeps, PrepareStartupKeeps
         DEF Next, Finished

\* The registry keeps its invariant, whatever the calls, roots, cap and restarts.
THEOREM InvariantHolds == Spec => []RegistryInv
  <1>1. RegistryInv /\ [Next]_registryVars => RegistryInv'
    BY NextKeeps
  <1> QED BY <1>1, InitEstablishes, PTL DEF Spec

\* The registry's type invariant.
THEOREM TypeCorrect == Spec => []TypeOK
  <1>1. RegistryInv => TypeOK
    BY DEF RegistryInv
  <1> QED BY <1>1, InvariantHolds, PTL

\* Every seat has exactly one construction and every construction its seat, and
\* warm slots and seats together respect the cap (_reserve_project_admission,
\* _replace_lru_with_project_admission, _construct_admitted_project_slot).
THEOREM SeatsAlwaysAccounted == Spec => []SeatsAreAccounted
  <1>1. RegistryInv => SeatsAreAccounted
    <2> SUFFICES ASSUME RegistryInv
                 PROVE  SeatsAreAccounted
      OBVIOUS
    <2>1. ASSUME NEW r \in Roots
          PROVE  Cardinality(Builders(r)) = IF r \in seats THEN 1 ELSE 0
      <3>1. Builders(r) = {c \in Calls : call[c].root = r /\ call[c].at \in Building}
        BY DEF Builders, Building
      <3>2. CASE r \in seats
        <4>1. PICK c \in Calls : call[c].at \in Building /\ call[c].root = r
          BY <3>2 DEF RegistryInv, SeatsOwned
        <4>2. Builders(r) = {c}
          BY <3>1, <4>1 DEF RegistryInv, SeatsOwned
        <4> QED BY <3>2, <4>2, FS_Singleton
      <3>3. CASE r \notin seats
        <4>1. Builders(r) = {}
          BY <3>1, <3>3 DEF RegistryInv, SeatsOwned
        <4> QED BY <3>3, <4>1, FS_EmptySet
      <3> QED BY <3>2, <3>3
    <2> QED BY <2>1 DEF SeatsAreAccounted, RegistryInv, WithinCap, Warm
  <1> QED BY <1>1, InvariantHolds, PTL

\* Whoever is about to open a root's store finds no handle of its own process on
\* it in the first life, and a shutdown that reports completion left open only
\* what some call is evicting (_root_store_guard, close_all).
THEOREM OpenStoresAlwaysAnsweredFor == Spec => []OpenStoresAreAnsweredFor
  <1>1. RegistryInv => OpenStoresAreAnsweredFor
    <2> SUFFICES ASSUME RegistryInv
                 PROVE  OpenStoresAreAnsweredFor
      OBVIOUS
    <2> USE DEF RegistryInv
    <2>1. \A s \in open \ Forgotten :
            /\ s \in Calls
            /\ \/ call[s].at = "using"
               \/ \E r \in Roots : slots[r] = s
               \/ \E d \in Calls : call[d].out = s
               \/ call[s].at \in {"built", "discarding", "opened", "late"}
      BY DEF Forgotten, TransientsCounted, TypeOK
    <2>2. ASSUME NEW d \in Calls, NEW s \in Calls, call[d].out = s
          PROVE  call[d].at \in Teardowns /\ s # None
      BY <2>2, RegistryAssumption DEF Locals, LocalOK
    <2>3. ASSUME life = 1, NEW c \in Calls, call[c].at \in {"building", "opening"},
                 NEW s \in open \ Forgotten, call[s].root = call[c].root
          PROVE  FALSE
      <3>1. call[c].at \in Locked /\ call[c].root \in Roots
        <4>1. call[c].at \in Locked
          BY <2>3 DEF Locked, Counting
        <4> QED BY <4>1, ColdIsPlaced
      <3>2. CASE call[s].at \in {"using", "built", "discarding", "opened", "late"}
        <4>1. s \in Calls /\ call[s].at \in Cold \cup Locked
          BY <2>1, <3>2 DEF Locked, Counting
        <4>2. call[s].held /\ Target(s) = call[s].root
          BY <4>1, ColdIsPlaced
        <4>3. c = s
          BY <2>3, <3>1, <4>1, <4>2, OneAtStorage
        <4> QED BY <2>3, <3>2, <4>3
      <3>3. ASSUME NEW r \in Roots, slots[r] = s
            PROVE  FALSE
        <4>1. s # None /\ call[s].root = r
          BY <2>1, <3>3, RegistryAssumption DEF SlotsPublished
        <4>2. slots[call[c].root] = s
          BY <2>3, <3>3, <4>1
        <4>3. CASE call[c].at = "building"
          BY <4>1, <4>2, <4>3 DEF SeatsOwned, Building
        <4>4. CASE call[c].at = "opening"
          BY <2>3, <4>1, <4>2, <4>4 DEF GuardsHeld, Cold, Counting
        <4> QED BY <2>3, <4>3, <4>4
      <3>4. ASSUME NEW d \in Calls, call[d].out = s, call[d].at \in Teardowns
            PROVE  FALSE
        <4>1. call[d].held /\ Target(d) = call[c].root
          BY <2>3, <3>4 DEF Locals, LocalOK, SlotsPublished
        <4>2. c = d
          BY <2>3, <3>1, <4>1, OneAtStorage
        <4> QED BY <2>3, <3>4, <4>2 DEF Teardowns
      <3> QED BY <2>1, <2>2, <3>2, <3>3, <3>4
    <2>4. ASSUME complete, NEW s \in open \ Forgotten
          PROVE  \E c \in Calls : call[c].out = s /\ call[c].at \in {"swept", "evicted", "emptied"}
      <3>1. Drained(slots, seats, transients, pending)
        BY <2>4 DEF ShutdownFinal
      <3>2. \A d \in Calls : call[d].at \notin Building \cup Counting \cup {"using"}
        BY <3>1, DrainedHasNobody DEF NobodyLeft
      <3>3. s \in Calls /\ \A r \in Roots : slots[r] # s
        BY <2>1, <3>1, <2>4, RegistryAssumption DEF Drained
      <3>4. call[s].at \notin {"using", "built", "discarding", "opened", "late"}
        BY <3>2, <3>3 DEF Building, Counting
      <3>5. PICK d \in Calls : call[d].out = s
        BY <2>1, <2>4, <3>3, <3>4
      <3>6. call[d].at \in Teardowns /\ call[d].at \notin Building
        BY <2>2, <3>2, <3>3, <3>5
      <3> QED BY <3>5, <3>6 DEF Teardowns, Building
    <2> QED BY <2>3, <2>4 DEF OpenStoresAreAnsweredFor
  <1> QED BY <1>1, InvariantHolds, PTL

\* Nothing but a shutdown closes the store of a leased slot, however sweeps,
\* replacements, maintenance and evictions interleave with the lease
\* (_teardown_slot and the places that take a slot out of _projects).
THEOREM LeasedStoresStayOpen == Spec => LeasedStoreStaysOpen
  <1>1. RegistryInv /\ [Next]_registryVars =>
          [\A c \in Leaseholders :
              call[c].slot \in open \ open' /\ call'[c].slot = call[c].slot
                  => closer = "draining" /\ closer' = "idle"]_registryVars
    <2> SUFFICES ASSUME RegistryInv, Next, NEW c \in Leaseholders,
                        call[c].slot \in open \ open'
                 PROVE  closer = "draining" /\ closer' = "idle"
      OBVIOUS
    <2> DEFINE s == call[c].slot
    <2>1. /\ c \in Calls /\ s \in Calls /\ s # None /\ s \in Calls
          /\ call[s].at \in Published /\ s \in open /\ s \notin open'
      <3>1. c \in Calls /\ call[c].at \in Leasing
        BY DEF Leaseholders, Leasing
      <3>2. s # None /\ s \in Calls \cup {None}
        BY <3>1 DEF RegistryInv, Locals, LocalOK, TypeOK, CallState
      <3> QED BY <3>1, <3>2 DEF RegistryInv, SlotsPublished
    <2>2. refs[s] > 0
      BY <2>1, LeasedIsCounted DEF RegistryInv, TypeOK
    <2> HIDE DEF s
    <2>3. ASSUME NEW d \in Calls, open' = open \ {d}, call[d].at \notin Published
          PROVE  FALSE
      BY <2>1, <2>3
    <2>4. ASSUME NEW d \in Calls, Teardown(d)
          PROVE  FALSE
      <3>1. call[d].out # None /\ open' = open \ {call[d].out}
        BY <2>4 DEF Teardown, RegistryInv, Locals, LocalOK
      <3>2. refs[call[d].out] = 0
        BY <3>1 DEF RegistryInv, SlotsPublished
      <3> QED BY <2>1, <2>2, <3>1, <3>2
    <2>5. ASSUME NEW d \in Calls, DiscardSlot(d)
          PROVE  FALSE
      BY <2>3, <2>5 DEF DiscardSlot, Published, Leasing
    <2>6. ASSUME NEW d \in Calls, OpenTransient(d) \/ CloseTransient(d)
          PROVE  FALSE
      <3>1. /\ call[d].at \in {"opening", "late", "using"}
            /\ open' = open \cup {d} \/ open' = open \ {d}
        BY <2>6 DEF OpenTransient, CloseTransient, EndTransient
      <3>2. call[d].at \notin Published
        BY <3>1 DEF Published, Leasing
      <3> QED BY <2>1, <2>3, <3>1, <3>2
    <2>7. ASSUME NEW d \in Calls, BuildSlot(d)
          PROVE  FALSE
      BY <2>1, <2>7 DEF BuildSlot, storeVars
    <2>8. ASSUME NEW d \in Calls, Begin(d) \/ Proceed(d)
          PROVE  FALSE
      <3>1. UNCHANGED open => FALSE
        BY <2>1
      <3>2. CASE Begin(d) \/ FetchGuard(d) \/ EnterGuard(d) \/ WakeUp(d)
        BY <3>1, <3>2 DEF Begin, FetchGuard, EnterGuard, WakeUp, storeVars
      <3>3. CASE Refuse(d) \/ AdoptWarm(d) \/ TakeSeat(d)
        BY <3>1, <3>3 DEF Refuse, AdoptWarm, TakeSeat, storeVars
      <3>4. CASE Reserve(d) \/ ResolveGap(d) \/ ReplaceVictim(d)
        BY <3>1, <3>3, <3>4 DEF Reserve, ResolveGap, ReplaceVictim, storeVars
      <3>5. CASE StartBuild(d) \/ PublishSlot(d)
        BY <3>1, <3>5 DEF StartBuild, PublishSlot, storeVars
      <3>6. CASE StartSweep(d) \/ SweepOne(d) \/ ReleaseLease(d) \/ TeardownRaises(d)
        BY <3>1, <3>6 DEF StartSweep, SweepOne, ReleaseLease, TeardownRaises, storeVars
      <3>7. CASE PinWarmSlot(d) \/ LeaseCold(d) \/ Maintain(d) \/ TryEvict(d)
        BY <3>1, <3>3, <3>7 DEF PinWarmSlot, LeaseCold, Maintain, TryEvict, storeVars
      <3>8. CASE StartTransient(d) \/ RegisterTransient(d)
        BY <3>1, <3>3, <3>8 DEF StartTransient, RegisterTransient, storeVars
      <3> QED BY <2>4, <2>5, <2>6, <2>7, <2>8, <3>2, <3>4, <3>5, <3>6, <3>7, <3>8 DEF Proceed
    <2>9. CASE CloseStores
      BY <2>9 DEF CloseStores
    <2>10. CASE BeginShutdown \/ PrepareStartup \/ Finished
      BY <2>1, <2>10 DEF BeginShutdown, PrepareStartup, Finished, registryVars, storeVars
    <2> QED BY <2>8, <2>9, <2>10 DEF Next
  <1> QED BY <1>1, InvariantHolds, PTL DEF Spec, LeasedStoreStaysOpen

=============================================================================
