--------------------------- MODULE ProjectRegistry ---------------------------
(***************************************************************************)
(* The project registry (service.py, _service_eviction.py): one warm slot    *)
(* per project root, at most Cap of them, each owning an open store whose    *)
(* storage an exclusive lock protects.  Calls lease a slot, borrow a cold    *)
(* root's store, take it for maintenance, evict a slot, or shut it all down. *)
(*                                                                          *)
(* A call is one activation by some thread, with its own target root.  Its   *)
(* steps are the blocks it runs under the registry lock, the acquisition of  *)
(* a root guard, and the opening or closing of a store.  A store or a slot   *)
(* is named by the call that constructed it.                                 *)
(*                                                                          *)
(* Abstractions: access times are not kept, so the least recently used slot  *)
(* may be any unleased one and any unleased slot may be idle; a root guard   *)
(* is given back together with the last step it protects.                    *)
(***************************************************************************)
EXTENDS Naturals, FiniteSets

CONSTANTS
    Calls,        \* the calls made on the registry
    Roots,        \* project roots
    Operations,   \* what calls do: a subset of AllOperations
    Cap,          \* service_max_projects; 0 disables the cap
    MaxLives,     \* bound: starts of the registry, the first included
    FaultyClose,  \* whether tearing down an evicted slot may raise
    None          \* no call, no root, no guard

CallKinds == {"lease", "peek", "store", "maintain", "evict"}
AllOperations == CallKinds \cup {"shutdown"}

ASSUME RegistryAssumption ==
    /\ Operations \subseteq AllOperations
    /\ Cap \in Nat /\ MaxLives \in Nat \ {0} /\ FaultyClose \in BOOLEAN
    /\ None \notin Calls \cup Roots

VARIABLES
    slots,       \* _projects: the slot published for a root
    seats,       \* _project_admissions: roots whose slot is being built
    refs,        \* ref_count of each slot
    transients,  \* _transient_stores
    pending,     \* _transient_store_constructions
    minted,      \* _root_locks: the life in which a root's guard was minted
    shutting,    \* _shutting_down
    complete,    \* _shutdown_complete
    closer,      \* where the shutdown is: "idle" or "draining"
    life,        \* how often the registry was started
    open,        \* stores that hold the lock on their root's storage
    call         \* the calls' control points and local variables

lifecycle == <<shutting, complete, closer, life>>
storeVars == <<transients, pending, open>>
slotVars  == <<slots, seats, refs>>
registryVars == <<slotVars, storeVars, minted, lifecycle, call>>

\* Where a call needs a root's guard, a mutex object told apart by its root and
\* the life that minted it; and where it tears a slot down.
Guarded  == {"gap", "replace", "construct", "sweep", "cold", "maintain", "evict"}
Teardowns == {"replaced", "swept", "evicted", "emptied"}

NewCall == [at |-> "start", op |-> None, root |-> None, guard |-> None,
            held |-> FALSE, slot |-> None, victim |-> None, out |-> None,
            sweep |-> {}]

Init ==
    /\ slots = [r \in Roots |-> None] /\ seats = {}
    /\ refs = [c \in Calls |-> 0]
    /\ transients = {} /\ pending = 0 /\ open = {}
    /\ minted = [r \in Roots |-> 0]
    /\ shutting = FALSE /\ complete = FALSE /\ closer = "idle" /\ life = 1
    /\ call = [c \in Calls |-> NewCall]

----------------------------------------------------------------------------
(* Moving a call.                                                           *)

Goto(c, p)  == [call EXCEPT ![c].at = p]
Leave(c, p) == [call EXCEPT ![c] = [@ EXCEPT !.at = p, !.guard = None, !.held = FALSE,
                                             !.victim = None, !.out = None]]
Return(c)   == [call EXCEPT ![c] = [NewCall EXCEPT !.at = "done", !.root = call[c].root]]
In(c, p)    == call[c].at = p /\ call[c].held

\* notify_all on the admission condition.  A joiner loops; a waiter beneath a
\* root guard first has to leave that guard.
Notified(cs) ==
    [d \in Calls |-> CASE cs[d].at = "joining" -> [cs[d] EXCEPT !.at = "reserve"]
                       [] cs[d].at = "waiting" -> [cs[d] EXCEPT !.at = "woken"]
                       [] OTHER -> cs[d]]

----------------------------------------------------------------------------
(* Root guards.                                                             *)

GuardedRoot(c) == IF call[c].at \in {"replace", "sweep"} THEN call[c].victim
                                                       ELSE call[c].root

\* Look up the guard of a root, minting it on first use.  A registry that
\* shuts down mints none, and the caller goes on without.
FetchGuard(c) ==
    /\ call[c].at \in Guarded /\ call[c].guard = None /\ ~call[c].held
    /\ LET r == GuardedRoot(c) IN
       \/ /\ minted[r] # 0
          /\ call' = [call EXCEPT ![c].guard = <<r, minted[r]>>]
          /\ UNCHANGED minted
       \/ /\ minted[r] = 0 /\ ~shutting
          /\ minted' = [minted EXCEPT ![r] = life]
          /\ call' = [call EXCEPT ![c].guard = <<r, life>>]
       \/ /\ minted[r] = 0 /\ shutting
          /\ call' = [call EXCEPT ![c].held = TRUE]
          /\ UNCHANGED minted
    /\ UNCHANGED <<slotVars, storeVars, lifecycle>>

EnterGuard(c) ==
    /\ call[c].at \in Guarded /\ call[c].guard # None /\ ~call[c].held
    /\ \A d \in Calls : ~(call[d].held /\ call[d].guard = call[c].guard)
    /\ call' = [call EXCEPT ![c].held = TRUE]
    /\ UNCHANGED <<slotVars, storeVars, minted, lifecycle>>

----------------------------------------------------------------------------
(* What the registry owns.                                                  *)

\* A shutdown is over once nothing the registry accounts for is left.
Drained(ps, ss, ts, n) ==
    (\A r \in Roots : ps[r] = None) /\ ss = {} /\ ts = {} /\ n = 0

Complete(ps, ss, ts, n) ==
    IF shutting /\ Drained(ps, ss, ts, n)
    THEN complete' = TRUE /\ minted' = [r \in Roots |-> 0]
    ELSE UNCHANGED <<complete, minted>>

\* Faulty variant: the seats under construction do not count.
HasWarmCapacity ==
    Cap = 0 \/ Cardinality({r \in Roots : slots[r] # None}) < Cap

HasCapacity ==
    \/ Cap = 0
    \/ Cardinality({r \in Roots : slots[r] # None}) + Cardinality(seats) < Cap

Unleased == {r \in Roots : slots[r] # None /\ refs[slots[r]] = 0}

\* Faulty variant: the slot is handed out and its lease never counted.
PinNothing(s) == refs' = [refs EXCEPT ![s] = @]

Pin(s) == refs' = [refs EXCEPT ![s] = @ + 1]

Unpin(s) == refs' = [refs EXCEPT ![s] = IF @ > 0 THEN @ - 1 ELSE 0]

\* Faulty variant: the root's guard is released before the store is closed.
TakeOutAndLeave(c, r, p) ==
    /\ slots' = [slots EXCEPT ![r] = None]
    /\ call' = [call EXCEPT ![c].at = p, ![c].out = slots[r],
                            ![c].guard = None, ![c].held = FALSE]

\* Take the slot of root r out of the registry; its store is closed later.
TakeOut(c, r, p) ==
    /\ slots' = [slots EXCEPT ![r] = None]
    /\ call' = [call EXCEPT ![c].at = p, ![c].out = slots[r]]

\* End the call and give back its construction seat, waking every waiter.
ReleaseSeat(c) ==
    /\ seats' = seats \ {call[c].root}
    /\ call' = IF call[c].root \in seats THEN Notified(Return(c)) ELSE Return(c)
    /\ Complete(slots, seats', transients, pending)
    /\ UNCHANGED <<slots, shutting, closer, life>>

----------------------------------------------------------------------------
(* Admission of a slot: lease and peek_project.                             *)

Begin(c) ==
    /\ call[c].at = "start"
    /\ \E o \in Operations \cap CallKinds, r \in Roots :
         call' = [call EXCEPT ![c].op = o, ![c].root = r, ![c].at =
                    CASE o \in {"lease", "peek"} -> "reserve"
                      [] o = "store" -> "pin"
                      [] OTHER -> o]
    /\ UNCHANGED <<slotVars, storeVars, minted, lifecycle>>

Refuse(c) ==
    /\ shutting
    /\ call' = Return(c)
    /\ UNCHANGED <<slotVars, storeVars, minted, lifecycle>>

\* Take the warm slot; a cold store lease that finds one keeps its guard.
AdoptWarm(c) ==
    LET s == slots[call[c].root] IN
    /\ ~shutting /\ s # None
    /\ \/ /\ call[c].op = "peek" /\ call' = Return(c) /\ UNCHANGED refs
       \/ /\ call[c].op = "lease" /\ Pin(s)
          /\ call' = [Leave(c, "sweeping") EXCEPT ![c].slot = s]
       \/ /\ call[c].op = "store" /\ Pin(s)
          /\ call' = [Goto(c, "leased") EXCEPT ![c].slot = s]
    /\ UNCHANGED <<slots, seats, storeVars, minted, lifecycle>>

Missing(c) == ~shutting /\ slots[call[c].root] = None
NeedsSeat(c) == Missing(c) /\ call[c].root \notin seats
MustWait(c) == NeedsSeat(c) /\ ~HasCapacity

TakeSeat(c) ==
    /\ NeedsSeat(c) /\ HasCapacity
    /\ seats' = seats \cup {call[c].root}
    /\ call' = Leave(c, "construct")
    /\ UNCHANGED <<slots, refs, storeVars, minted, lifecycle>>

\* The loop of _reserve_project_admission, up to the next wait or guard.
Reserve(c) ==
    /\ call[c].at = "reserve"
    /\ \/ Refuse(c) \/ AdoptWarm(c) \/ TakeSeat(c)
       \/ /\ \/ Missing(c) /\ call[c].root \in seats /\ call' = Goto(c, "joining")
             \/ MustWait(c) /\ Unleased = {} /\ call' = Goto(c, "gap")
             \/ /\ MustWait(c)
                /\ \E v \in Unleased :
                     call' = [Goto(c, "replace") EXCEPT ![c].victim = v]
          /\ UNCHANGED <<slotVars, storeVars, minted, lifecycle>>

\* _reserve_after_root_guard, which may wait holding its root's guard.
ResolveGap(c) ==
    /\ In(c, "gap")
    /\ \/ Refuse(c) \/ AdoptWarm(c) \/ TakeSeat(c)
       \/ /\ \/ Missing(c) /\ call[c].root \in seats /\ call' = Leave(c, "reserve")
             \/ MustWait(c) /\ seats # {} /\ call' = Goto(c, "waiting")
             \/ /\ MustWait(c) /\ seats = {}
                /\ call' = IF Unleased = {} THEN Return(c) ELSE Leave(c, "reserve")
          /\ UNCHANGED <<slotVars, storeVars, minted, lifecycle>>

WakeUp(c) ==
    /\ call[c].at = "woken"
    /\ call' = Leave(c, "reserve")
    /\ UNCHANGED <<slotVars, storeVars, minted, lifecycle>>

\* _replace_lru_with_project_admission: the victim leaves and the seat is
\* taken in one step; RegistryFullError if every slot is leased by now.
ReplaceVictim(c) ==
    LET v == call[c].victim IN
    /\ In(c, "replace")
    /\ \/ Refuse(c) \/ AdoptWarm(c) \/ TakeSeat(c)
       \/ /\ \/ Missing(c) /\ call[c].root \in seats /\ call' = Leave(c, "reserve")
             \/ MustWait(c) /\ Unleased = {} /\ call' = Return(c)
             \/ MustWait(c) /\ Unleased \ {v} # {} /\ call' = Leave(c, "reserve")
          /\ UNCHANGED <<slotVars, storeVars, minted, lifecycle>>
       \/ /\ MustWait(c) /\ v \in Unleased
          /\ TakeOut(c, v, "replaced")
          /\ seats' = seats \cup {call[c].root}
          /\ UNCHANGED <<refs, storeVars, minted, lifecycle>>

\* _root_store_admission and _refuse_when_shutting_down, seat in hand.
StartBuild(c) ==
    /\ In(c, "construct")
    /\ \/ shutting /\ ReleaseSeat(c) /\ UNCHANGED <<refs, storeVars>>
       \/ /\ ~shutting /\ call' = Goto(c, "building")
          /\ UNCHANGED <<slotVars, storeVars, minted, lifecycle>>

RootIsFree(r) == \A s \in open : call[s].root # r

\* _create_slot opens the store, which fails while another handle is open on
\* the same storage and may fail for reasons of its own.
BuildSlot(c) ==
    /\ call[c].at = "building"
    /\ \/ /\ RootIsFree(call[c].root)
          /\ open' = open \cup {c} /\ call' = Goto(c, "built")
          /\ UNCHANGED <<slotVars, transients, pending, minted, lifecycle>>
       \/ ReleaseSeat(c) /\ UNCHANGED <<refs, storeVars>>

\* _publish_slot_locked: a lease's slot is published already pinned.
PublishSlot(c) ==
    /\ call[c].at = "built"
    /\ \/ /\ ~shutting
          /\ slots' = [slots EXCEPT ![call[c].root] = c]
          /\ seats' = seats \ {call[c].root}
          /\ \/ /\ call[c].op = "lease" /\ Pin(c)
                /\ call' = Notified([Leave(c, "sweeping") EXCEPT ![c].slot = c])
             \/ /\ call[c].op = "peek" /\ UNCHANGED refs
                /\ call' = Notified(Return(c))
          /\ UNCHANGED <<storeVars, minted, lifecycle>>
       \/ /\ shutting /\ call' = Goto(c, "discarding")
          /\ UNCHANGED <<slotVars, storeVars, minted, lifecycle>>

\* Close a slot that a shutdown kept from being published.
DiscardSlot(c) ==
    /\ call[c].at = "discarding"
    /\ open' = open \ {c}
    /\ ReleaseSeat(c)
    /\ UNCHANGED <<refs, transients, pending>>

----------------------------------------------------------------------------
(* The lease itself, and the idle sweep it runs on the way in.              *)

NextVictim(c, rest) ==
    IF rest = {} THEN call' = Leave(c, "leased")
    ELSE \E v \in rest : call' = [Leave(c, "sweep") EXCEPT ![c].victim = v,
                                                           ![c].sweep = rest \ {v}]

StartSweep(c) ==
    /\ call[c].at = "sweeping"
    /\ \E idle \in SUBSET Unleased : NextVictim(c, idle)
    /\ UNCHANGED <<slotVars, storeVars, minted, lifecycle>>

SweepOne(c) ==
    LET v == call[c].victim IN
    /\ In(c, "sweep")
    /\ \/ NextVictim(c, call[c].sweep) /\ UNCHANGED slots
       \/ v \in Unleased /\ TakeOut(c, v, "swept")
    /\ UNCHANGED <<seats, refs, storeVars, minted, lifecycle>>

ReleaseLease(c) ==
    /\ call[c].at = "leased"
    /\ Unpin(call[c].slot)
    /\ call' = Return(c)
    /\ UNCHANGED <<slots, seats, storeVars, minted, lifecycle>>

\* _teardown_slot closes the store of a slot that was taken out.
Teardown(c) ==
    /\ call[c].at \in Teardowns
    /\ open' = open \ {call[c].out}
    /\ \/ call[c].at = "replaced" /\ call' = Leave(c, "construct")
       \/ call[c].at = "swept" /\ NextVictim(c, call[c].sweep)
       \/ call[c].at = "evicted" /\ call' = Return(c)
       \/ call[c].at = "emptied" /\ call' = [Goto(c, "transient") EXCEPT ![c].out = None]
    /\ UNCHANGED <<slotVars, transients, pending, minted, lifecycle>>

\* Faulty variant: the seat taken for the victim's successor is not rolled back.
TeardownRaisesSeated(c) ==
    /\ FaultyClose /\ call[c].at \in Teardowns
    /\ refs' = IF call[c].slot = None THEN refs ELSE [refs EXCEPT ![call[c].slot] = @ - 1]
    /\ call' = Return(c)
    /\ UNCHANGED <<slots, seats, storeVars, minted, lifecycle>>

\* It raises before the close: the seat or the pin is rolled back, the store
\* stays open.
TeardownRaises(c) ==
    /\ FaultyClose /\ call[c].at \in Teardowns
    /\ \/ call[c].at = "replaced" /\ ReleaseSeat(c) /\ UNCHANGED refs
       \/ /\ call[c].at = "swept" /\ Unpin(call[c].slot)
          /\ call' = Return(c)
          /\ UNCHANGED <<slots, seats, minted, lifecycle>>
       \/ /\ call[c].at \in {"evicted", "emptied"} /\ call' = Return(c)
          /\ UNCHANGED <<slotVars, minted, lifecycle>>
    /\ UNCHANGED storeVars

----------------------------------------------------------------------------
(* Model-free store leases, maintenance and eviction.                       *)

PinWarmSlot(c) ==
    /\ call[c].at = "pin"
    /\ \/ Refuse(c) \/ AdoptWarm(c)
       \/ /\ Missing(c) /\ call' = Goto(c, "cold")
          /\ UNCHANGED <<slotVars, storeVars, minted, lifecycle>>

LeaseCold(c) ==
    /\ In(c, "cold")
    /\ \/ Refuse(c) \/ AdoptWarm(c)
       \/ /\ Missing(c) /\ call' = Goto(c, "transient")
          /\ UNCHANGED <<slotVars, storeVars, minted, lifecycle>>

\* lease_maintenance_store: an unleased warm slot gives way.
Maintain(c) ==
    LET r == call[c].root IN
    /\ In(c, "maintain")
    /\ \/ Refuse(c)
       \/ /\ ~shutting /\ r \in Unleased /\ TakeOut(c, r, "emptied")
          /\ UNCHANGED <<seats, refs, storeVars, minted, lifecycle>>
       \/ /\ ~shutting /\ r \notin Unleased
          /\ call' = IF slots[r] = None THEN Goto(c, "transient")
                                        ELSE Return(c)
          /\ UNCHANGED <<slotVars, storeVars, minted, lifecycle>>

\* try_evict, which a shutdown does not refuse.
TryEvict(c) ==
    LET r == call[c].root IN
    /\ In(c, "evict")
    /\ \/ r \in Unleased /\ TakeOut(c, r, "evicted")
       \/ r \notin Unleased /\ call' = Return(c) /\ UNCHANGED slots
    /\ UNCHANGED <<seats, refs, storeVars, minted, lifecycle>>

\* _lease_registered_transient_store counts a store before it exists.
StartTransient(c) ==
    /\ call[c].at = "transient"
    /\ \/ Refuse(c)
       \/ /\ ~shutting /\ pending' = pending + 1 /\ call' = Goto(c, "opening")
          /\ UNCHANGED <<slotVars, transients, open, minted, lifecycle>>

EndTransient(c, n) ==
    /\ open' = open \ {c} /\ transients' = transients \ {c} /\ pending' = n
    /\ call' = Return(c)
    /\ Complete(slots, seats, transients', n)
    /\ UNCHANGED <<slotVars, shutting, closer, life>>

OpenTransient(c) ==
    /\ call[c].at = "opening"
    /\ \/ /\ RootIsFree(call[c].root)
          /\ open' = open \cup {c} /\ call' = Goto(c, "opened")
          /\ UNCHANGED <<slotVars, transients, pending, minted, lifecycle>>
       \/ EndTransient(c, pending - 1)

RegisterTransient(c) ==
    /\ call[c].at = "opened"
    /\ \/ /\ ~shutting
          /\ transients' = transients \cup {c} /\ pending' = pending - 1
          /\ call' = Goto(c, "using")
       \/ /\ shutting /\ call' = Goto(c, "late") /\ UNCHANGED <<transients, pending>>
    /\ UNCHANGED <<slotVars, open, minted, lifecycle>>

CloseTransient(c) ==
    \/ call[c].at = "late" /\ EndTransient(c, pending - 1)
    \/ call[c].at = "using" /\ EndTransient(c, pending)

----------------------------------------------------------------------------
(* Shutdown and restart of the same registry.                               *)

BeginShutdown ==
    /\ "shutdown" \in Operations /\ ~shutting /\ closer = "idle"
    /\ shutting' = TRUE /\ complete' = FALSE /\ closer' = "draining"
    /\ call' = Notified(call)
    /\ UNCHANGED <<slotVars, storeVars, minted, life>>

\* The drain is over or out of time: close what is registered, leased or not.
CloseStores ==
    /\ closer = "draining"
    /\ open' = open \ (transients \cup {slots[r] : r \in Roots})
    /\ slots' = [r \in Roots |-> None]
    /\ closer' = "idle"
    /\ Complete(slots', seats, transients, pending)
    /\ UNCHANGED <<seats, refs, transients, pending, shutting, life, call>>

PrepareStartup ==
    /\ shutting /\ complete /\ closer = "idle" /\ life < MaxLives
    /\ Drained(slots, seats, transients, pending)
    /\ \A r \in Roots : minted[r] = 0
    /\ shutting' = FALSE /\ complete' = FALSE /\ life' = life + 1
    /\ UNCHANGED <<slotVars, storeVars, minted, closer, call>>

\* Every call has returned.
Finished ==
    /\ \A c \in Calls : call[c].at = "done"
    /\ UNCHANGED registryVars

Proceed(c) ==
    \/ FetchGuard(c) \/ EnterGuard(c)
    \/ Reserve(c) \/ ResolveGap(c) \/ WakeUp(c) \/ ReplaceVictim(c)
    \/ StartBuild(c) \/ BuildSlot(c) \/ PublishSlot(c) \/ DiscardSlot(c)
    \/ StartSweep(c) \/ SweepOne(c) \/ ReleaseLease(c)
    \/ Teardown(c) \/ TeardownRaises(c)
    \/ PinWarmSlot(c) \/ LeaseCold(c) \/ Maintain(c) \/ TryEvict(c)
    \/ StartTransient(c) \/ OpenTransient(c) \/ RegisterTransient(c)
    \/ CloseTransient(c)

Next ==
    \/ \E c \in Calls : Begin(c) \/ Proceed(c)
    \/ BeginShutdown \/ CloseStores \/ PrepareStartup \/ Finished

Spec == Init /\ [][Next]_registryVars

----------------------------------------------------------------------------
(* Properties.                                                              *)

\* Stores a teardown that raised left open, which nothing accounts for any more.
Forgotten ==
    {s \in open : /\ s \notin transients
                  /\ \A r \in Roots : slots[r] # s
                  /\ \A c \in Calls : call[c].out # s
                  /\ call[s].at \notin {"built", "discarding", "opened", "late"}}

\* Somebody answers for every open store.  A caller about to open a root's store
\* is never refused by a handle of its own process (the purpose of
\* _root_store_guard; a restart forgets the guards that calls of the former life
\* hold), and when a shutdown reports completion the only stores still open are
\* those some call is evicting.  Stores whose teardown raised are beyond both.
OpenStoresAreAnsweredFor ==
    /\ life = 1 =>
           \A c \in Calls : call[c].at \in {"building", "opening"} =>
               \A s \in open \ Forgotten : call[s].root # call[c].root
    /\ complete => \A s \in open \ Forgotten :
           \E c \in Calls : call[c].out = s /\ call[c].at \in {"swept", "evicted", "emptied"}

Builders(r) == {c \in Calls : /\ call[c].root = r
                              /\ call[c].at \in {"replaced", "construct",
                                                 "building", "built", "discarding"}}

\* A seat belongs to exactly one construction, and every construction has one:
\* a seat is neither lost to a failure nor shared by two builders.  Warm slots
\* and seats together respect the cap, also while a victim is being replaced.
SeatsAreAccounted ==
    /\ \A r \in Roots : Cardinality(Builders(r)) = IF r \in seats THEN 1 ELSE 0
    /\ Cap > 0 => Cardinality({r \in Roots : slots[r] # None}) + Cardinality(seats) <= Cap

Leaseholders == {c \in Calls : call[c].at \in {"sweeping", "sweep", "swept", "leased"}}

\* Nothing but a shutdown closes the store of a leased slot, however sweeps,
\* replacements, maintenance and evictions interleave with the lease.
LeasedStoreStaysOpen ==
    [][\A c \in Leaseholders :
        call[c].slot \in open \ open' /\ call'[c].slot = call[c].slot
            => closer = "draining" /\ closer' = "idle"]_registryVars

\* Some call on the registry can always go on while any has not returned: no
\* order of waiting for seats beneath root guards, and no seat lost by a failure
\* or a restart, locks the callers up.
NoCallIsStranded ==
    (\E c \in Calls : call[c].at \notin {"start", "done"}) => \E c \in Calls : ENABLED Proceed(c)

=============================================================================
