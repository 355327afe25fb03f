------------------------------ MODULE GpuDevice ------------------------------
(***************************************************************************)
(* What the service promises of its GPU: the service and the borrowers it    *)
(* grants the device to take turns on it.  A device nobody has is promised    *)
(* to a borrower, then granted; until that borrower has left, nobody else     *)
(* uses the device, and the grant is neither withdrawn nor passed on.         *)
(*                                                                          *)
(* The one exception is a promise made while a recall let through earlier was *)
(* still to be carried out: the device is disputed until the next promise.    *)
(* BorrowerHold implements this (server/_routes_quiesce.py,                   *)
(* _service_borrower.py, _gpu_owner.py).                                      *)
(***************************************************************************)

CONSTANTS
    Borrowers,  \* external processes that may be granted the device
    Service,    \* the service itself
    NoOne       \* no borrower

VARIABLES
    users,    \* the parties that have a model on the device
    grant,    \* the borrower the device is granted to, or NoOne
    disputed  \* the device was promised while its recall was already under way

deviceVars == <<users, grant, disputed>>

Init == users = {} /\ grant = NoOne /\ disputed = FALSE

\* Nobody is on the device, or whose it is may be disputed.
Free == users = {} \/ disputed

\* A device nobody has is promised, with or without a recall under way.
Promise(d) == users = {} /\ disputed' = d /\ UNCHANGED <<users, grant>>

\* The service loads its models.
Load == Free /\ users' = users \cup {Service} /\ UNCHANGED <<grant, disputed>>

\* Whoever uses the device lets it go.
Leave(p) == users' = users \ {p} /\ UNCHANGED <<grant, disputed>>

\* A device is granted, perhaps again, to a borrower, who may have gone by the
\* time it is told.
Grant(b) ==
    /\ Free
    /\ grant' = b
    /\ users' \in {users, users \cup {b}}
    /\ UNCHANGED disputed

\* The service takes back a device no borrower uses.
Reclaim ==
    /\ users \subseteq {Service} \/ disputed
    /\ grant' = NoOne
    /\ UNCHANGED <<users, disputed>>

Next ==
    \/ Load \/ Reclaim
    \/ \E d \in BOOLEAN : Promise(d)
    \/ \E p \in Borrowers \cup {Service} : Leave(p)
    \/ \E b \in Borrowers : Grant(b)

Spec == Init /\ [][Next]_deviceVars

----------------------------------------------------------------------------

\* An undisputed device has one user at a time, who is the granted borrower if any.
Exclusive ==
    \/ users = {} \/ disputed
    \/ users = {Service}
    \/ users = {grant} /\ grant \in Borrowers

=============================================================================
