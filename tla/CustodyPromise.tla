--------------------------- MODULE CustodyPromise ---------------------------
(* What a custody promises its two parties, without policies, deadlines or   *)
(* secrets: a principal is put in once, it is divided once between payer and *)
(* payee, and each gets exactly its share, once.                             *)
(* The header of vinss_escrow_rekber.cairo states it as the core business    *)
(* invariants.                                                               *)
EXTENDS Integers

CONSTANTS Custodies, MaxPrincipal

Parties == {"payer", "payee"}
Principals == 1..MaxPrincipal

\* No division has been made.
Undivided == [party \in Parties |-> 0]

VARIABLES
    principal,   \* the amount put in, 0 before funding
    share,       \* the division of the principal
    delivered    \* what each party has received

vars == <<principal, share, delivered>>

Init ==
    /\ principal = [c \in Custodies |-> 0]
    /\ share = [c \in Custodies |-> Undivided]
    /\ delivered = [c \in Custodies |-> Undivided]

Fund(c) ==
    /\ principal[c] = 0
    /\ \E amount \in Principals :
         principal' = [principal EXCEPT ![c] = amount]
    /\ UNCHANGED <<share, delivered>>

\* By consent, by a timeout or by the resolver; never a second time.
Divide(c) ==
    /\ principal[c] # 0
    /\ share[c] = Undivided
    /\ \E division \in [Parties -> 0..MaxPrincipal] :
         /\ division["payer"] + division["payee"] = principal[c]
         /\ share' = [share EXCEPT ![c] = division]
    /\ UNCHANGED <<principal, delivered>>

Deliver(c, party) ==
    /\ share[c][party] # 0
    /\ delivered[c][party] = 0
    /\ delivered' = [delivered EXCEPT ![c][party] = share[c][party]]
    /\ UNCHANGED <<principal, share>>

Next == \E c \in Custodies :
    \/ Fund(c)
    \/ Divide(c)
    \/ \E party \in Parties : Deliver(c, party)

\* A share that was fixed is delivered.
Fairness == \A c \in Custodies, party \in Parties : WF_vars(Deliver(c, party))

Spec == Init /\ [][Next]_vars /\ Fairness

\* The safety part alone.
Safe == Init /\ [][Next]_vars
=============================================================================
