---------------------------- MODULE AccessReviews ----------------------------
(***************************************************************************)
(* An access review campaign (access_review.py) in its JSON file, and the  *)
(* requests of the dashboard and the command line that create it, record   *)
(* decisions and sign it off.                                              *)
(***************************************************************************)
EXTENDS Integers, Sequences, FiniteSets

CONSTANTS
    Callers, MaxCalls, MaxTime,
    Items,          \* the entitlements the IAM evidence may list
    Reviewers,
    Words           \* decisions a request may ask for

VARIABLES file, now, calls, started, trail, moves, quiet

None == [kind |-> "none"]
Decisions == {"PENDING", "MAINTAIN", "REVOKE", "MODIFY"}

ReviewOps ==
    [name: {"create"}, items: SUBSET Items]
    \cup [name: {"decide"}, item: Items, decision: Words, by: Reviewers]
    \cup [name: {"signoff"}, by: Reviewers]

Unsigned == [decision |-> "PENDING", by |-> None]

(* create_campaign_from_evidence: every entitlement is pending. *)
Campaign(items) ==
    [status |-> "ACTIVE", items |-> [i \in items |-> Unsigned], signature |-> None]

PendingCount(camp) == Cardinality({i \in DOMAIN camp.items : camp.items[i].decision = "PENDING"})

(* Mutant of IsComplete: one decision is enough. *)
IsBegun(camp) == \E i \in DOMAIN camp.items : camp.items[i].decision # "PENDING"

IsComplete(camp) == DOMAIN camp.items # {} /\ PendingCount(camp) = 0

(***************************************************************************)
(* complete_and_sign: the digest stands for what it was computed from, the *)
(* decisions and their reviewers, the day and the signatory.  The notes    *)
(* of a review are not part of it.                                         *)
(***************************************************************************)
Payload(camp, by, at) == [items |-> camp.items, by |-> by, at |-> at]

Signed(camp, by, at) ==
    [camp EXCEPT !.status = "COMPLETED", !.signature = Payload(camp, by, at)]

(* Mutant of Decided: the review starts again with each decision. *)
DecidedAlone(camp, item, decision, by) ==
    [camp EXCEPT !.items = [i \in DOMAIN @ |->
        IF i = item THEN [decision |-> decision, by |-> by] ELSE Unsigned]]

(* record_decision, which does not look at the campaign's status. *)
Decided(camp, item, decision, by) ==
    [camp EXCEPT !.items[item] = [decision |-> decision, by |-> by]]

Refuse(reply) == [reply |-> reply, saves |-> FALSE, value |-> None]
Save(camp) == [reply |-> "ok", saves |-> TRUE, value |-> camp]

(***************************************************************************)
(* A campaign that cannot be read is not found.  A decision that is not    *)
(* one of the four raises out of the handler, after its item was found.    *)
(***************************************************************************)
ServeReview(content, op, call) ==
    LET camp == content.value IN
    CASE op.name = "create" -> Save(Campaign(op.items))
      [] op.name # "create" /\ content.kind # "whole" -> Refuse("404")
      [] op.name = "decide" /\ content.kind = "whole" ->
            IF op.item \notin DOMAIN camp.items THEN Refuse("404")
            ELSE IF op.decision \notin Decisions THEN Refuse("dropped")
            ELSE Save(Decided(camp, op.item, op.decision, op.by))
      [] OTHER -> IF IsComplete(camp) THEN Save(Signed(camp, op.by, call.at))
                  ELSE Refuse("400")

Register == INSTANCE JsonRegister WITH Ops <- ReviewOps, Serve <- ServeReview

Init == Register!Init
Next == Register!Next

-----------------------------------------------------------------------------
Done(name) == {i \in DOMAIN trail : trail[i].op.name = name /\ trail[i].reply = "ok"}
Newest(S) == IF S = {} THEN 0 ELSE CHOOSE i \in S : \A j \in S : j <= i
Created == Newest(Done("create"))

(***************************************************************************)
(* While calls do not overlap and none is cut off, the campaign shows, for *)
(* each entitlement, the last decision that was acknowledged since it was  *)
(* created, and pending where there was none.                              *)
(***************************************************************************)
DecisionsStand ==
    quiet /\ Register!AtRest /\ Created # 0 =>
        /\ file.kind = "whole"
        /\ \A i \in DOMAIN file.value.items :
              LET last == Newest({d \in Done("decide") : d > Created /\ trail[d].op.item = i})
              IN  file.value.items[i] =
                     IF last = 0 THEN Unsigned
                     ELSE [decision |-> trail[last].op.decision, by |-> trail[last].op.by]

(***************************************************************************)
(* However the requests overlapped, no signature was made over an          *)
(* entitlement nobody had decided on, or leaves one of the campaign out.   *)
(* It need not describe the decisions beside it, but then one of those was *)
(* recorded after a sign-off: nothing stops that, see SignOffIsFinal.      *)
(***************************************************************************)
NothingSignedUnreviewed ==
    file.kind = "whole" /\ file.value.signature # None =>
        LET signed == file.value.signature.items
            items  == file.value.items
        IN  /\ DOMAIN signed = DOMAIN items
            /\ DOMAIN signed # {}
            /\ \A i \in DOMAIN signed : signed[i].decision # "PENDING"
            /\ signed # items =>
                  \E d \in Done("decide"), s \in Done("signoff") :
                      /\ s < d
                      /\ items[trail[d].op.item] = [decision |-> trail[d].op.decision, by |-> trail[d].op.by]

(***************************************************************************)
(* A campaign that was closed is final: its signature describes the        *)
(* decisions it shows ("Finalize campaign and compute cryptographic        *)
(* tamper-evident sign-off digest", access_review.py:118).  Stated for     *)
(* calls that do not overlap, since no race is needed to break it.         *)
(***************************************************************************)
SignOffIsFinal ==
    quiet /\ Register!AtRest /\ file.kind = "whole" /\ file.value.status = "COMPLETED" =>
        file.value.signature.items = file.value.items
=============================================================================
