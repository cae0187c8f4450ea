------------------------- MODULE ChildIdentity -------------------------
(***************************************************************************)
(* How a child of a Requirement gets its number (link_child of             *)
(* requirement_intake.py with managed_work_identity.py).  The claims lie   *)
(* in the bodies of GitHub Issues, which are read and written as a whole   *)
(* and without a condition: the child claims the number first, then the    *)
(* parent lists the child and reserves it, then everything is read back.   *)
(* A lock of the host serializes the runs on one machine; another machine  *)
(* and people write whenever they like.                                    *)
(***************************************************************************)
EXTENDS Naturals, FiniteSets, FiniteSetsExt

CONSTANTS
    Kids,      \* Issues that become children
    Linkers,   \* runs of link_child
    NoLinker,  \* nobody holds a lock
    Hosts, HostOf,
    MaxNumber, MaxRuns, MaxEdits   \* bounds: numbers handed out, runs, edits by hand

ASSUME IdentityAssumption ==
    /\ Kids # {} /\ HostOf \in [Linkers -> Hosts] /\ NoLinker \notin Linkers
    /\ MaxNumber \in Nat \ {0} /\ MaxRuns \in Nat /\ MaxEdits \in Nat

VARIABLES
    parent,   \* the body of the parent: listed children, reserved numbers, edits by hand
    claim,    \* the number in the body of a child, 0 when there is none
    hostLock, \* the flock of a host
    linker,
    reported,   \* what link_child has told its caller: the number of the child
    runs      \* how many runs there were

identityVars == <<parent, claim, hostLock, linker, reported, runs>>

Number == 1..MaxNumber
ParentBody == [list : SUBSET Kids, reserved : SUBSET (Kids \X Number), edits : 0..MaxEdits]
NoBodySeen == [list |-> {}, reserved |-> {}, edits |-> 0]
NoClaims == [k \in Kids |-> 0]
IdleLinker(k) == [at |-> "idle", kid |-> k, seen |-> NoBodySeen, claims |-> NoClaims, number |-> 0]

LinkStep == {"idle", "locked", "parentRead", "allocating", "claiming", "childChecked",
             "claimed", "checked", "written", "parentReadBack"}

IdentityTypeOK ==
    /\ parent \in ParentBody /\ claim \in [Kids -> {0} \cup Number]
    /\ hostLock \in [Hosts -> Linkers \cup {NoLinker}]
    /\ linker \in [Linkers -> [at : LinkStep, kid : Kids, seen : ParentBody,
                               claims : [Kids -> {0} \cup Number], number : {0} \cup Number]]
    /\ reported \in [Kids -> {0} \cup Number] /\ runs \in 0..MaxRuns

IdentityInit ==
    /\ parent = NoBodySeen /\ claim = NoClaims
    /\ hostLock = [h \in Hosts |-> NoLinker]
    /\ linker = [l \in Linkers |-> IdleLinker(CHOOSE k \in Kids : TRUE)]
    /\ reported = NoClaims /\ runs = 0

LinkerAt(l, step) == linker[l].at = step
Update(l, record) == linker' = [linker EXCEPT ![l] = record]

Release(l) ==
    /\ Update(l, IdleLinker(CHOOSE k \in Kids : TRUE))
    /\ hostLock' = [h \in Hosts |-> IF hostLock[h] = l THEN NoLinker ELSE hostLock[h]]

-----------------------------------------------------------------------------
(* assignments: the numbers that the parent reserves and the children claim. *)

Assigned(body, claims) == body.reserved \cup {<<k, claims[k]>> : k \in {j \in Kids : claims[j] # 0}}

\* One number for a child, and one child for a number.
Consistent(pairs) == \A p, q \in pairs : p[1] = q[1] <=> p[2] = q[2]

NextNumber(pairs) == Max({p[2] : p \in pairs} \cup {0}) + 1

NumberFor(k, pairs) ==
    IF \E p \in pairs : p[1] = k THEN (CHOOSE p \in pairs : p[1] = k)[2] ELSE NextNumber(pairs)

-----------------------------------------------------------------------------
(* link_child. *)

LockHost(l) ==
    /\ LinkerAt(l, "idle") /\ hostLock[HostOf[l]] = NoLinker /\ runs < MaxRuns
    /\ runs' = runs + 1
    /\ hostLock' = [hostLock EXCEPT ![HostOf[l]] = l]
    /\ \E k \in Kids : Update(l, [linker[l] EXCEPT !.at = "locked", !.kid = k])
    /\ UNCHANGED <<parent, claim, reported>>

LinkerReads(l, record) == Update(l, record) /\ UNCHANGED <<parent, claim, hostLock, reported, runs>>

ReadParent(l) ==
    LinkerAt(l, "locked") /\ LinkerReads(l, [linker[l] EXCEPT !.at = "parentRead", !.seen = parent])

\* The child and every sibling, linked, reserved or claiming.
ReadClaims(l) ==
    LinkerAt(l, "parentRead") /\ LinkerReads(l, [linker[l] EXCEPT !.at = "allocating", !.claims = claim])

Allocate(l) ==
    /\ LinkerAt(l, "allocating")
    /\ LET pairs == Assigned(linker[l].seen, linker[l].claims) IN
       /\ Consistent(pairs)
       /\ NumberFor(linker[l].kid, pairs) \in Number
       /\ LinkerReads(l, [linker[l] EXCEPT !.at = "claiming", !.number = NumberFor(linker[l].kid, pairs)])

\* The claim comes first: an allocation that is interrupted is found again.  The
\* child is compared before it is written.
CheckChild(l) ==
    /\ LinkerAt(l, "claiming") /\ claim[linker[l].kid] = linker[l].claims[linker[l].kid]
    /\ LinkerReads(l, [linker[l] EXCEPT !.at = "childChecked",
                                       !.claims[linker[l].kid] = linker[l].number])

ClaimNumber(l) ==
    /\ LinkerAt(l, "childChecked")
    /\ claim' = [claim EXCEPT ![linker[l].kid] = linker[l].number]
    /\ Update(l, [linker[l] EXCEPT !.at = "claimed"])
    /\ UNCHANGED <<parent, hostLock, reported, runs>>

CheckParent(l) ==
    /\ LinkerAt(l, "claimed") /\ parent = linker[l].seen
    /\ LinkerReads(l, [linker[l] EXCEPT !.at = "checked"])

\* The new body: the child is listed, and every number known is reserved.
NewParent(l) ==
    [linker[l].seen EXCEPT !.list = @ \cup {linker[l].kid},
                           !.reserved = Assigned(linker[l].seen, linker[l].claims)]

WriteParent(l) ==
    /\ LinkerAt(l, "checked")
    /\ parent' = NewParent(l)
    /\ Update(l, [linker[l] EXCEPT !.at = "written"])
    /\ UNCHANGED <<claim, hostLock, reported, runs>>

ReadParentBack(l) ==
    /\ LinkerAt(l, "written") /\ parent = NewParent(l)
    /\ LinkerReads(l, [linker[l] EXCEPT !.at = "parentReadBack"])

\* Every claim there is has to be reserved in the body that was read back, and
\* what was allocated has to be claimed still.
ReservationsClaimed(l) ==
    \A p \in NewParent(l).reserved : claim[p[1]] = p[2]
KnownOK(l) == Consistent(NewParent(l).reserved)
ReadBackOK(l) ==
    LET observed == Assigned(NewParent(l), claim) IN
    /\ Consistent(observed)
    /\ observed = NewParent(l).reserved
    /\ ReservationsClaimed(l)

Linked(l) ==
    /\ LinkerAt(l, "parentReadBack") /\ ReadBackOK(l)
    /\ reported' = [reported EXCEPT ![linker[l].kid] = linker[l].number]
    /\ Release(l)
    /\ UNCHANGED <<parent, claim, runs>>

\* Refused at any comparison, failed or killed; the lock goes with the process.
GiveUp(l) ==
    /\ ~LinkerAt(l, "idle") /\ Release(l)
    /\ UNCHANGED <<parent, claim, reported, runs>>

-----------------------------------------------------------------------------
(* People: they edit the text of the parent, and repair a claim that was not  *)
(* linked.                                                                       *)

EditParent ==
    /\ parent.edits < MaxEdits
    /\ parent' = [parent EXCEPT !.edits = @ + 1]
    /\ UNCHANGED <<claim, hostLock, linker, reported, runs>>

RepairClaim(k) ==
    /\ claim[k] # 0 /\ reported[k] = 0
    /\ \E j \in Kids \ {k} : claim[j] = claim[k]
    /\ claim' = [claim EXCEPT ![k] = 0]
    /\ parent' = [parent EXCEPT !.reserved = @ \ ({k} \X Number)]
    /\ UNCHANGED <<hostLock, linker, reported, runs>>

LinkerStep(l) ==
    \/ LockHost(l) \/ ReadParent(l) \/ ReadClaims(l) \/ Allocate(l) \/ CheckChild(l)
    \/ ClaimNumber(l) \/ CheckParent(l) \/ WriteParent(l) \/ ReadParentBack(l) \/ Linked(l) \/ GiveUp(l)

IdentityNext == (\E l \in Linkers : LinkerStep(l)) \/ EditParent \/ (\E k \in Kids : RepairClaim(k))

IdentitySpec == IdentityInit /\ [][IdentityNext]_identityVars

-----------------------------------------------------------------------------
(* Properties. *)

\* Two children that were reported linked never have the same number,
\* although runs on two machines may hand it out twice: each claims before it
\* reads back.  It takes two machines: with three of them linking at once, and
\* a person who repairs a claim between, the third can rewrite the claim of a
\* child that was reported, and its number is then handed out again.
NumbersDiffer ==
    \A j, k \in Kids : j # k /\ reported[j] # 0 => reported[j] # reported[k]

\* A child that was reported linked keeps its number, however often and from
\* wherever it is linked again.
ChildKeepsNumber == \A k \in Kids : reported[k] # 0 => claim[k] = reported[k]

=============================================================================
