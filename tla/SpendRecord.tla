---------------------------- MODULE SpendRecord ----------------------------
(***************************************************************************)
(* What the audit record of automated spends promises, without passes,     *)
(* clocks, files or faults: the life of each entry.  An entry opens with   *)
(* what is known of its spend and is revised only forward; it says         *)
(* confirmed only of a coin the chain has, and of one that no other entry  *)
(* has; what is confirmed, or was never signed, stays as it is.            *)
(***************************************************************************)
EXTENDS Functions

CONSTANTS
    Numbers,    \* what spends are numbered by
    NoCoin

VARIABLES
    entry,      \* number of a spend -> [status, coin]
    onChain     \* the coins blocks have created

book == <<entry, onChain>>

Init ==
    /\ DOMAIN entry = {}
    /\ onChain = {}

(* The first entry of a spend that can be read: the intent, or, when that  *)
(* was never written, or not whole, the first of what became of it that    *)
(* was.                                                                    *)
Openings == {"pending", "failed_signing", "failed_broadcast", "submitted", "unresolved"}

(* A submission is the only one of these that is revised again, unless the *)
(* chain is asked.  An intent may come to be unresolved at once, when the  *)
(* line of the submission was lost.                                        *)
Forward == ({"pending"} \X Openings) \cup {<<"submitted", "unresolved">>}

(* A signed bundle existed, and what became of it is not known.            *)
Chased == {s \in DOMAIN entry :
              entry[s].status \in {"submitted", "unresolved", "failed_broadcast"}}

Taken == {entry[s].coin : s \in {t \in DOMAIN entry : entry[t].status = "confirmed"}}

Says(status, coin) == [status |-> status, coin |-> coin]

Open(s, status) ==
    /\ s \notin DOMAIN entry /\ status \in Openings
    /\ entry' = [t \in DOMAIN entry \cup {s} |->
                    IF t = s THEN Says(status, NoCoin) ELSE entry[t]]
    /\ UNCHANGED onChain

Revise(s, status) ==
    /\ s \in DOMAIN entry /\ <<entry[s].status, status>> \in Forward
    /\ entry' = [entry EXCEPT ![s] = Says(status, NoCoin)]
    /\ UNCHANGED onChain

(* The chain shows the coins of some of the spends that are chased.        *)
Confirm(S, coin) ==
    /\ S \subseteq Chased /\ IsInjective(coin)
    /\ \A s \in S : coin[s] \in onChain \ Taken
    /\ entry' = [t \in DOMAIN entry |->
                    IF t \in S THEN Says("confirmed", coin[t]) ELSE entry[t]]
    /\ UNCHANGED onChain

Block ==
    /\ onChain \subseteq onChain'
    /\ UNCHANGED entry

Next ==
    \/ Block
    \/ \E s \in Numbers, status \in Openings : Open(s, status) \/ Revise(s, status)
    \/ \E S \in SUBSET Chased : \E coin \in [S -> onChain] : Confirm(S, coin)

Spec == Init /\ [][Next]_book
============================================================================
