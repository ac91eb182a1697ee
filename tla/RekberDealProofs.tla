-------------------------- MODULE RekberDealProofs --------------------------
(***************************************************************************)
(* The capabilities of a deal and the locks of its two pages, for any      *)
(* number of custodies, signatures, openings of the panels, wallet         *)
(* requests and rounds.                                                    *)
(*                                                                         *)
(* A device that stores before it sends still has to show that what it     *)
(* stored is there when a request is approved, possibly after the page was *)
(* loaded again and signed something else. So the invariant asks of every  *)
(* place a signed payload can wait (the panel, a handler, the wallet, the  *)
(* chain) that it is backed by the device, and follows from two facts: a   *)
(* payload is stored before it leaves the panel, and what is stored is     *)
(* never replaced (Grows). Only the payee's panel may hold a payload the   *)
(* device refused to store; SendAcceptance asks the device again.          *)
(***************************************************************************)
EXTENDS RekberDeal, TLAPS

Payload == [k : 0 .. MaxCustodies, ver : Nat]
Acts == {"setup", "accept", "fund", "release", "claim", "refund"}
Handler ==
  [who : Parties, act : Acts, step : {"sign", "send"}, k : 0 .. MaxCustodies, ver : Nat,
   at : {"panel", "holds", "gone"}]
WorkHandler ==
  [who : Parties, act : {"work", "review"}, step : {"key", "send"}, k : Custodies, ver : {0}, at : {"chat"}]
Request == [kind : {"create", "accept", "release", "fund", "submit", "confirm", "revise",
                    "claim", "refund"},
            k : Custodies, arg : Nat]
Record == [st : {"none", "funded", "submitted", "confirmed", "revision", "released", "refunded"},
           ver : Nat, sub : Nat, rev : Nat]

TypeOK ==
  /\ custody \in [Parties -> 0 .. MaxCustodies] /\ mine \in [Parties -> Nat]
  /\ unread \in [Parties -> BOOLEAN] /\ \A c \in Parties : unread[c] => custody[c] # 0
  /\ pend \in [Parties -> Payload]
  /\ ops \subseteq Handler \union WorkHandler /\ prompts \subseteq Request
  /\ signed \in [Parties -> Nat]
  /\ stored \in [Parties -> [Custodies -> Nat]]
  /\ unsent \in [Parties -> SUBSET Custodies]
  /\ creates \in Seq(Custodies) /\ accepts \subseteq [k : Custodies, ver : Nat]
  /\ esc \in [Custodies -> Record]

\* The device of c holds the capabilities of exactly this approval.
Backed(c, k, ver) == k \in Custodies /\ ver # 0 /\ stored[c][k] = ver

HandlerKept(o) ==
  /\ o.act = "accept" => o.k \in Custodies
  /\ o.step = "send" /\ o.act \in {"setup", "accept"} => Backed(o.who, o.k, o.ver)

RequestKept(p) ==
  /\ p.kind \in {"create", "fund"} => Backed("payer", p.k, 1)
  /\ p.kind \in {"accept", "fund"} => Backed("payee", p.k, p.arg)

\* A setup has one version per custody.
PayerVersions == \A k \in Custodies : stored["payer"][k] \in {0, 1}

PanelKept ==
  /\ pend["payer"] # None => Backed("payer", pend["payer"].k, pend["payer"].ver)
  /\ pend["payee"] # None => pend["payee"].ver # 0

UnsentKept == \A c \in Parties : \A k \in unsent[c] : stored[c][k] # 0

ChainKept ==
  /\ \A i \in DOMAIN creates : Backed("payer", creates[i], 1)
  /\ \A r \in accepts : Backed("payee", r.k, r.ver)
  /\ \A k \in Custodies : esc[k].st # "none" => Backed("payer", k, 1) /\ Backed("payee", k, esc[k].ver)

IInv ==
  /\ TypeOK /\ PayerVersions /\ PanelKept /\ UnsentKept /\ ChainKept
  /\ \A o \in ops : HandlerKept(o)
  /\ \A p \in prompts : RequestKept(p)

\* What is stored is never replaced.
Grows == \A c \in Parties : \A k \in Custodies : stored[c][k] # 0 => stored'[c][k] = stored[c][k]

-----------------------------------------------------------------------------
\* The two kinds of handlers tell themselves apart.
LEMMA Handlers ==
    ASSUME TypeOK, NEW o \in ops
    PROVE  /\ o.who \in Parties /\ o.act # "none"
           /\ o.at = "chat" => o \in WorkHandler /\ o.act \in {"work", "review"} /\ o.k \in Custodies
           /\ o.at # "chat" => o \in Handler /\ o.act \in Acts /\ o.at \in {"panel", "holds", "gone"}
           /\ o \in WorkHandler => o.at = "chat"
<1>1. CASE o \in Handler
  BY <1>1 DEF Handler, WorkHandler, Acts
<1>2. CASE o \in WorkHandler
  BY <1>2 DEF WorkHandler
<1> QED
  BY <1>1, <1>2 DEF TypeOK

LEMMA InitInvariant == Init => IInv
<1> SUFFICES ASSUME Init PROVE IInv
  OBVIOUS
<1>1. None \in Payload /\ Empty \in Record
  BY DealAssumption DEF None, Empty, Payload, Record
<1>2. TypeOK
  BY <1>1, DealAssumption DEF Init, TypeOK, Parties, Custodies
<1>3. PayerVersions /\ PanelKept /\ UnsentKept /\ ChainKept
  BY DEF Init, PayerVersions, PanelKept, UnsentKept, ChainKept, Parties, Empty
<1> QED
  BY <1>2, <1>3 DEF IInv, Init

\* Whatever was backed stays so.
LEMMA BackedStays ==
    ASSUME Grows, NEW c \in Parties, NEW k, NEW ver, Backed(c, k, ver)
    PROVE  Backed(c, k, ver)'
BY DEF Grows, Backed

LEMMA RequestStays ==
    ASSUME Grows, NEW p \in Request, RequestKept(p)
    PROVE  RequestKept(p)'
BY BackedStays DEF RequestKept, Parties

LEMMA HandlerStays ==
    ASSUME Grows, NEW o \in Handler \union WorkHandler, HandlerKept(o)
    PROVE  HandlerKept(o)'
<1>1. o.who \in Parties
  BY DEF Handler, WorkHandler
<1> QED
  BY <1>1, BackedStays DEF HandlerKept

LEMMA ChainStays ==
    ASSUME Grows, ChainKept, UNCHANGED <<creates, accepts, esc>>
    PROVE  ChainKept'
<1> USE DEF Parties
<1>1. \A i \in DOMAIN creates : Backed("payer", creates[i], 1)'
  BY BackedStays DEF ChainKept
<1>2. \A r \in accepts : Backed("payee", r.k, r.ver)'
  BY BackedStays DEF ChainKept
<1>3. \A k \in Custodies : esc[k].st # "none" => Backed("payer", k, 1)' /\ Backed("payee", k, esc[k].ver)'
  BY BackedStays DEF ChainKept
<1> QED
  BY <1>1, <1>2, <1>3 DEF ChainKept

-----------------------------------------------------------------------------
(* Steps that store nothing and ask the wallet for nothing.                *)

\* Handlers may end or lose their panel, payloads may be dropped.
LEMMA QuietStep ==
    ASSUME IInv, UNCHANGED <<stored, unsent, creates, accepts, esc>>, prompts' \subseteq prompts,
           custody' \in [Parties -> 0 .. MaxCustodies], mine' \in [Parties -> Nat],
           unread' \in [Parties -> BOOLEAN], \A c \in Parties : unread'[c] => custody'[c] # 0,
           signed' \in [Parties -> Nat], pend' \in [Parties -> Payload],
           \A c \in Parties : pend'[c] \in {pend[c], None},
           ops' \subseteq Handler \union WorkHandler,
           \A o \in ops' : \E q \in ops : /\ o.who = q.who /\ o.act = q.act /\ o.step = q.step
                                          /\ o.k = q.k /\ o.ver = q.ver
    PROVE  IInv'
<1>1. Grows
  BY DEF Grows
<1>2. TypeOK'
  BY DEF IInv, TypeOK
<1>3. PayerVersions' /\ UnsentKept' /\ ChainKept'
  BY <1>1, ChainStays DEF IInv, PayerVersions, UnsentKept
<1>4. PanelKept'
  BY <1>1, BackedStays DEF IInv, PanelKept, Parties, None, Backed
<1>5. \A o \in ops' : HandlerKept(o)'
  BY DEF IInv, HandlerKept, Backed
<1>6. \A p \in prompts' : RequestKept(p)'
  BY DEF IInv, RequestKept, Backed
<1> QED
  BY <1>2, <1>3, <1>4, <1>5, <1>6 DEF IInv

LEMMA EndHandlers ==
    ASSUME IInv, NEW o \in ops, End(o)
    PROVE  ops' \subseteq ops
BY DEF End

LEMMA LeaveTypes ==
    ASSUME IInv, NEW c \in Parties, Leave(c)
    PROVE  /\ custody' \in [Parties -> 0 .. MaxCustodies] /\ mine' \in [Parties -> Nat]
           /\ unread' \in [Parties -> BOOLEAN] /\ \A d \in Parties : unread'[d] => custody'[d] # 0
           /\ pend' \in [Parties -> Payload] /\ \A d \in Parties : pend'[d] \in {pend[d], None}
<1>1. None \in Payload /\ 0 \in 0 .. MaxCustodies
  BY DealAssumption DEF None, Payload
<1> QED
  BY <1>1 DEF IInv, TypeOK, Leave

LEMMA PanelSteps ==
    ASSUME IInv, NEW c \in Parties, Open(c) \/ Close(c) \/ Reload(c) \/ ReleaseLock(c)
    PROVE  IInv'
<1> USE DEF IInv, TypeOK
<1>0. None \in Payload
  BY DealAssumption DEF None, Payload
<1>1. CASE Open(c)
  <2>1. discoveredCreate \in 0 .. MaxCustodies
    BY DealAssumption DEF discoveredCreate, Last, Custodies
  <2> QED
    BY <1>1, <2>1, QuietStep DEF Open, deviceVars, chainVars, lockVars
<1>2. CASE Close(c)
  <2> DEFINE moved(q) == [q EXCEPT !.at = IF act[c] = q.act THEN "holds" ELSE "gone"]
  <2>1. ASSUME NEW q \in ops
        PROVE  /\ q.at = "panel" => moved(q) \in Handler
               /\ moved(q).who = q.who /\ moved(q).act = q.act /\ moved(q).step = q.step
               /\ moved(q).k = q.k /\ moved(q).ver = q.ver
    <3>1. (IF act[c] = q.act THEN "holds" ELSE "gone") \in {"panel", "holds", "gone"}
      OBVIOUS
    <3>2. CASE q \in Handler
      BY <3>1, <3>2 DEF Handler
    <3>3. CASE q \in WorkHandler
      BY <3>1, <3>3 DEF WorkHandler
    <3> QED
      BY <3>2, <3>3
  <2>2. \A o \in ops' : \E q \in ops : o = q \/ (q.at = "panel" /\ o = moved(q))
    BY <1>2 DEF Close
  <2> HIDE DEF moved
  <2>3. \A o \in ops' : o \in Handler \union WorkHandler /\ \E q \in ops : /\ o.who = q.who /\ o.act = q.act /\ o.step = q.step
                                                        /\ o.k = q.k /\ o.ver = q.ver
    BY <2>1, <2>2
  <2> QED
    BY <1>2, <2>3, LeaveTypes, QuietStep DEF Close, deviceVars, chainVars
<1>3. CASE Reload(c)
  BY <1>3, LeaveTypes, QuietStep DEF Reload, deviceVars, chainVars
<1>4. CASE ReleaseLock(c)
  BY <1>0, <1>4, QuietStep DEF ReleaseLock, deviceVars, chainVars
<1> QED
  BY <1>1, <1>2, <1>3, <1>4

LEMMA SilentSteps ==
    ASSUME IInv,
           \/ \E o \in ops : Fails(o)
           \/ \E p \in prompts : Decline(p)
           \/ \E k \in Custodies : Deadline(k)
           \/ UNCHANGED vars
    PROVE  IInv'
<1> USE DEF IInv, TypeOK
<1>1. CASE \E o \in ops : Fails(o)
  BY <1>1, EndHandlers, QuietStep DEF Fails, pageVars, deviceVars, chainVars
<1>2. CASE \E p \in prompts : Decline(p)
  BY <1>2, QuietStep DEF Decline, pageVars, lockVars, deviceVars, chainVars
<1>3. CASE \E k \in Custodies : Deadline(k)
  BY <1>3, QuietStep DEF Deadline, pageVars, lockVars, deviceVars
<1>4. CASE UNCHANGED vars
  BY <1>4, QuietStep DEF vars, pageVars, lockVars, deviceVars, chainVars
<1> QED
  BY <1>1, <1>2, <1>3, <1>4

\* A payload that is restored was stored.
LEMMA LoadStep ==
    ASSUME IInv, NEW c \in Parties, LoadSecrets(c)
    PROVE  IInv'
<1> DEFINE k == custody[c]
           restored == [k |-> k, ver |-> stored[c][k]]
<1>1. UNCHANGED <<stored, unsent, creates, accepts, esc, signed, custody, ops, prompts>>
  BY DEF LoadSecrets, deviceVars, chainVars, lockVars
<1>2. k \in Custodies /\ stored[c][k] \in Nat
  BY DealAssumption DEF LoadSecrets, IInv, TypeOK, Custodies
<1>3. pend' = pend \/ (k \in unsent[c] /\ pend' = [pend EXCEPT ![c] = restored])
  BY DEF LoadSecrets
<1>4. restored \in Payload
  BY <1>2 DEF Payload, Custodies
<1>5. TypeOK'
  BY <1>1, <1>2, <1>3, <1>4 DEF IInv, TypeOK, LoadSecrets
<1>6. PanelKept'
  <2>1. k \in unsent[c] => Backed(c, restored.k, restored.ver)
    BY <1>2 DEF IInv, UnsentKept, Backed
  <2> QED
    BY <1>1, <1>3, <2>1 DEF IInv, TypeOK, PanelKept, Parties, Backed
<1>7. PayerVersions' /\ UnsentKept' /\ ChainKept'
  BY <1>1 DEF IInv, PayerVersions, UnsentKept, ChainKept, Backed
<1>8. (\A o \in ops' : HandlerKept(o)') /\ \A p \in prompts' : RequestKept(p)'
  BY <1>1 DEF IInv, HandlerKept, RequestKept, Backed
<1> QED
  BY <1>5, <1>6, <1>7, <1>8 DEF IInv

-----------------------------------------------------------------------------
(* Saving.                                                                 *)

\* What saveRekberSecrets does when the device has nothing else for the custody.
LEMMA SaveStep ==
    ASSUME IInv, NEW c \in Parties, NEW k \in Custodies, NEW v \in Nat \ {0},
           stored[c][k] \in {0, v}, stored' = [stored EXCEPT ![c][k] = v],
           unsent' \in {[unsent EXCEPT ![c] = unsent[c] \union {k}], [unsent EXCEPT ![c] = unsent[c] \ {k}]},
           c = "payer" => v = 1
    PROVE  /\ stored' \in [Parties -> [Custodies -> Nat]]
           /\ unsent' \in [Parties -> SUBSET Custodies]
           /\ Grows /\ UnsentKept' /\ Backed(c, k, v)' /\ PayerVersions'
<1> USE DEF IInv, TypeOK
<1>1. stored' = [stored EXCEPT ![c] = [stored[c] EXCEPT ![k] = v]]
  OBVIOUS
<1>2. stored' \in [Parties -> [Custodies -> Nat]]
  BY <1>1
<1>3. /\ stored'[c][k] = v
      /\ \A j \in Custodies \ {k} : stored'[c][j] = stored[c][j]
      /\ \A d \in Parties \ {c} : stored'[d] = stored[d]
  BY <1>1
<1>4. Grows
  BY <1>3 DEF Grows
<1>5. PICK ks \in {unsent[c] \union {k}, unsent[c] \ {k}} : unsent' = [unsent EXCEPT ![c] = ks]
  OBVIOUS
<1>6. unsent' \in [Parties -> SUBSET Custodies]
  BY <1>5
<1>7. UnsentKept'
  BY <1>3, <1>5 DEF UnsentKept
<1>8. PayerVersions'
  BY <1>3 DEF PayerVersions, Parties
<1> QED
  BY <1>2, <1>3, <1>4, <1>6, <1>7, <1>8 DEF Backed

\* A step that saves, or not, and leaves the chain alone.
LEMMA DeviceStep ==
    ASSUME IInv, TypeOK', Grows, PayerVersions', UnsentKept', PanelKept',
           UNCHANGED <<creates, accepts, esc>>,
           \A o \in ops' \ ops : HandlerKept(o)', \A p \in prompts' \ prompts : RequestKept(p)'
    PROVE  IInv'
<1>1. ChainKept'
  BY ChainStays DEF IInv
<1>2. \A o \in ops' : HandlerKept(o)'
  BY HandlerStays DEF IInv, TypeOK
<1>3. \A p \in prompts' : RequestKept(p)'
  BY RequestStays DEF IInv, TypeOK
<1> QED
  BY <1>1, <1>2, <1>3 DEF IInv

\* A tap that asks the wallet for something and stores nothing.
LEMMA AskStep ==
    ASSUME IInv, NEW r \in Request, RequestKept(r), prompts' = prompts \union {r},
           UNCHANGED <<pageVars, deviceVars, chainVars>>,
           ops' = ops \/ \E h \in Handler : HandlerKept(h) /\ ops' = ops \union {h}
    PROVE  IInv'
<1>1. UNCHANGED <<custody, mine, unread, pend, signed, stored, unsent, creates, accepts, esc>>
  BY DEF pageVars, deviceVars, chainVars
<1>2. TypeOK'
  BY <1>1 DEF IInv, TypeOK
<1>3. Grows /\ PayerVersions' /\ UnsentKept' /\ PanelKept'
  BY <1>1 DEF IInv, Grows, PayerVersions, UnsentKept, PanelKept, Backed
<1>4. \A o \in ops' \ ops : HandlerKept(o)'
  BY <1>1 DEF HandlerKept, Backed
<1>5. RequestKept(r)'
  BY <1>1 DEF RequestKept, Backed
<1> QED
  BY <1>1, <1>2, <1>3, <1>4, <1>5, DeviceStep

-----------------------------------------------------------------------------
(* Setup and acceptance.                                                   *)

\* The first tap only asks for a signature.
LEMMA SignTaps ==
    ASSUME IInv, handleStartRekber \/ handleAcceptRekber
    PROVE  IInv'
<1> DEFINE h(c, a, k) == [who |-> c, act |-> a, step |-> "sign", k |-> k, ver |-> 0, at |-> "panel"]
<1>1. PICK c \in Parties, a \in {"setup", "accept"}, k \in 0 .. MaxCustodies :
          /\ a = "accept" => k \in Custodies
          /\ ops' = ops \union {h(c, a, k)}
  <2>1. CASE handleStartRekber
    <3>1. ops' = ops \union {h("payer", "setup", 0)} /\ 0 \in 0 .. MaxCustodies
      BY <2>1, DealAssumption DEF handleStartRekber, Run
    <3> HIDE DEF h
    <3> QED
      BY <3>1 DEF Parties
  <2>2. CASE handleAcceptRekber
    <3>1. ops' = ops \union {h("payee", "accept", custody["payee"])} /\ custody["payee"] # 0
      BY <2>2 DEF handleAcceptRekber, MayAccept, Run
    <3>2. custody["payee"] \in 0 .. MaxCustodies /\ custody["payee"] \in Custodies
      BY <3>1, DealAssumption DEF IInv, TypeOK, Parties, Custodies
    <3> HIDE DEF h
    <3> QED
      BY <3>1, <3>2 DEF Parties
  <2> QED
    BY <2>1, <2>2
<1>2. h(c, a, k) \in Handler /\ HandlerKept(h(c, a, k))'
  BY <1>1 DEF Handler, HandlerKept, Acts
<1>3. UNCHANGED <<custody, mine, unread, pend, signed, stored, unsent, creates, accepts, esc, prompts>>
  BY DEF handleStartRekber, handleAcceptRekber, pageVars, deviceVars, chainVars
<1>4. TypeOK'
  BY <1>1, <1>2, <1>3 DEF IInv, TypeOK
<1>5. Grows /\ PayerVersions' /\ UnsentKept' /\ PanelKept'
  BY <1>3 DEF IInv, Grows, PayerVersions, UnsentKept, PanelKept, Backed
<1> QED
  BY <1>1, <1>2, <1>3, <1>4, <1>5, DeviceStep

LEMMA SetupSignedStep ==
    ASSUME IInv, NEW o \in ops, SetupSigned(o)
    PROVE  IInv'
<1>0. PICK k, s : k = signed["payer"] + 1 /\ s = SignedSetup(k)
  OBVIOUS
<1>1. "payer" \in Parties /\ k \in Custodies /\ k \in 0 .. MaxCustodies /\ k # 0
  BY <1>0, DealAssumption DEF SetupSigned, IInv, TypeOK, Parties, Custodies
<1>2. s \in Payload /\ s.k = k /\ s.ver = 1
  BY <1>0, <1>1 DEF SignedSetup, Payload
<1>3. /\ stored' = [stored EXCEPT !["payer"][k] = 1] /\ stored["payer"][k] \in {0, 1}
      /\ unsent' = [unsent EXCEPT !["payer"] = unsent["payer"] \union {k}]
  BY <1>0, <1>1, <1>2 DEF SetupSigned, saveRekberSecrets, IInv, PayerVersions
<1>4. /\ stored' \in [Parties -> [Custodies -> Nat]] /\ unsent' \in [Parties -> SUBSET Custodies]
      /\ Grows /\ UnsentKept' /\ Backed("payer", k, 1)' /\ PayerVersions'
  <2>1. 1 \in Nat \ {0}
    OBVIOUS
  <2> QED
    BY <1>1, <1>3, <2>1, SaveStep
<1>5. UNCHANGED <<creates, accepts, esc, prompts>> /\ ops' \subseteq ops
      /\ signed' = [signed EXCEPT !["payer"] = k]
  BY <1>0, EndHandlers DEF SetupSigned, chainVars
<1>6. \/ /\ pend' = [pend EXCEPT !["payer"] = s] /\ custody' = [custody EXCEPT !["payer"] = k]
         /\ mine' = [mine EXCEPT !["payer"] = 0] /\ unread' = [unread EXCEPT !["payer"] = TRUE]
      \/ UNCHANGED <<pend, custody, mine, unread>>
  BY <1>0 DEF SetupSigned
<1>7. TypeOK'
  <2>1. signed' \in [Parties -> Nat]
    BY <1>1, <1>5 DEF IInv, TypeOK
  <2>2. /\ custody' \in [Parties -> 0 .. MaxCustodies] /\ mine' \in [Parties -> Nat]
        /\ unread' \in [Parties -> BOOLEAN] /\ pend' \in [Parties -> Payload]
        /\ \A c \in Parties : unread'[c] => custody'[c] # 0
    <3>1. CASE UNCHANGED <<pend, custody, mine, unread>>
      BY <3>1 DEF IInv, TypeOK
    <3>2. CASE /\ pend' = [pend EXCEPT !["payer"] = s] /\ custody' = [custody EXCEPT !["payer"] = k]
               /\ mine' = [mine EXCEPT !["payer"] = 0] /\ unread' = [unread EXCEPT !["payer"] = TRUE]
      <4>1. custody' \in [Parties -> 0 .. MaxCustodies] /\ mine' \in [Parties -> Nat] /\ pend' \in [Parties -> Payload]
        BY <1>1, <1>2, <3>2 DEF IInv, TypeOK
      <4>2. unread' \in [Parties -> BOOLEAN]
        BY <1>1, <3>2, Zenon DEF IInv, TypeOK
      <4>3. \A c \in Parties : unread'[c] => custody'[c] # 0
        BY <1>1, <3>2 DEF IInv, TypeOK
      <4> QED
        BY <4>1, <4>2, <4>3
    <3> QED
      BY <1>6, <3>1, <3>2
  <2> QED
    BY <1>4, <1>5, <2>1, <2>2 DEF IInv, TypeOK
<1>8. PanelKept'
  <2>1. (pend["payer"] # None => Backed("payer", pend["payer"].k, pend["payer"].ver))'
    <3>1. CASE pend' = [pend EXCEPT !["payer"] = s]
      BY <1>1, <1>2, <1>4, <3>1 DEF IInv, TypeOK, Backed
    <3>2. CASE pend' = pend
      BY <1>1, <1>4, <3>2 DEF IInv, PanelKept, Grows, Backed
    <3> QED
      BY <1>6, <3>1, <3>2
  <2>2. (pend["payee"] # None => pend["payee"].ver # 0)'
    BY <1>6 DEF IInv, TypeOK, PanelKept, Parties
  <2> QED
    BY <2>1, <2>2 DEF PanelKept
<1> QED
  BY <1>4, <1>5, <1>7, <1>8, DeviceStep

LEMMA SendSetupStep ==
    ASSUME IInv, SendSetup
    PROVE  IInv'
<1>0. PICK s : s = pend["payer"]
  OBVIOUS
<1> DEFINE h == [who |-> "payer", act |-> "setup", step |-> "send", k |-> s.k, ver |-> s.ver, at |-> "panel"]
           r == [kind |-> "create", k |-> s.k, arg |-> s.ver]
<1>1. "payer" \in Parties /\ s \in Payload /\ Backed("payer", s.k, s.ver) /\ s.ver = 1
  BY <1>0 DEF SendSetup, IInv, TypeOK, PanelKept, PayerVersions, Backed, Parties
<1>2. /\ s.k \in Custodies /\ stored["payer"][s.k] \in {0, s.ver}
      /\ stored' = [stored EXCEPT !["payer"][s.k] = s.ver]
      /\ unsent' = [unsent EXCEPT !["payer"] = unsent["payer"] \union {s.k}]
  BY <1>0, <1>1 DEF SendSetup, saveRekberSecrets, Backed
<1>3. ops' = ops \union {h} /\ prompts' = prompts \union {r}
  BY <1>0 DEF SendSetup, Run, sendEscrowCoordinationAction, Ask
<1>4. UNCHANGED <<custody, mine, unread, pend, signed, creates, accepts, esc>>
  BY DEF SendSetup, pageVars, chainVars
<1>5. h \in Handler /\ r \in Request
  BY <1>1, <1>2 DEF Handler, Acts, Request, Payload
<1>7. /\ stored' \in [Parties -> [Custodies -> Nat]] /\ unsent' \in [Parties -> SUBSET Custodies]
      /\ Grows /\ UnsentKept' /\ Backed("payer", s.k, s.ver)' /\ PayerVersions'
  <2>1. s.ver \in Nat \ {0}
    BY <1>1
  <2> QED
    BY <1>1, <1>2, <2>1, SaveStep
<1>8. HandlerKept(h)' /\ RequestKept(r)'
  BY <1>1, <1>7 DEF HandlerKept, RequestKept, Backed
<1>9. TypeOK'
  BY <1>3, <1>4, <1>5, <1>7 DEF IInv, TypeOK
<1>10. PanelKept'
  <2>1. (pend["payer"] # None => Backed("payer", pend["payer"].k, pend["payer"].ver))'
    BY <1>4, <1>7 DEF IInv, PanelKept, Parties, Grows, Backed
  <2> QED
    BY <1>4, <2>1 DEF IInv, PanelKept
<1> QED
  BY <1>3, <1>4, <1>7, <1>8, <1>9, <1>10, DeviceStep

\* Signed, and stored unless the device has another acceptance of that custody.
LEMMA AcceptSignedStep ==
    ASSUME IInv, NEW o \in ops, AcceptSigned(o)
    PROVE  IInv'
<1> DEFINE s == SignedAcceptance(o.k, signed["payee"] + 1)
<1>1. "payee" \in Parties /\ o.k \in Custodies /\ o.k \in 0 .. MaxCustodies
  BY DealAssumption DEF AcceptSigned, IInv, HandlerKept, Parties, Custodies
<1>2. s \in Payload /\ s.k = o.k /\ s.ver \in Nat \ {0}
  BY <1>1 DEF SignedAcceptance, Payload, IInv, TypeOK
<1>3. /\ signed' = [signed EXCEPT !["payee"] = s.ver]
      /\ pend' = pend \/ pend' = [pend EXCEPT !["payee"] = s]
      /\ UNCHANGED <<custody, unread, creates, accepts, esc, prompts>> /\ ops' \subseteq ops
      /\ mine' = mine \/ mine' = [mine EXCEPT !["payee"] = s.ver]
  BY EndHandlers DEF AcceptSigned, chainVars
<1>4. \/ UNCHANGED <<stored, unsent>>
      \/ /\ stored["payee"][o.k] \in {0, s.ver} /\ stored' = [stored EXCEPT !["payee"][o.k] = s.ver]
         /\ unsent' = [unsent EXCEPT !["payee"] = unsent["payee"] \union {o.k}]
  BY DEF AcceptSigned, MaySave, saveRekberSecrets
<1> HIDE DEF s
<1>5. /\ stored' \in [Parties -> [Custodies -> Nat]] /\ unsent' \in [Parties -> SUBSET Custodies]
      /\ Grows /\ UnsentKept' /\ PayerVersions'
  <2>1. CASE UNCHANGED <<stored, unsent>>
    BY <2>1 DEF IInv, TypeOK, Grows, UnsentKept, PayerVersions
  <2>2. CASE /\ stored["payee"][o.k] \in {0, s.ver} /\ stored' = [stored EXCEPT !["payee"][o.k] = s.ver]
             /\ unsent' = [unsent EXCEPT !["payee"] = unsent["payee"] \union {o.k}]
    BY <1>1, <1>2, <2>2, SaveStep
  <2> QED
    BY <1>4, <2>1, <2>2
<1>6. TypeOK'
  BY <1>1, <1>2, <1>3, <1>5 DEF IInv, TypeOK
<1>7. PanelKept'
  BY <1>1, <1>2, <1>3, <1>5, BackedStays DEF IInv, TypeOK, PanelKept, Parties
<1> QED
  BY <1>3, <1>5, <1>6, <1>7, DeviceStep

\* The device is asked again before the acceptance is sent.
LEMMA SendAcceptanceStep ==
    ASSUME IInv, SendAcceptance
    PROVE  IInv'
<1>0. PICK s : s = pend["payee"]
  OBVIOUS
<1> DEFINE h == [who |-> "payee", act |-> "accept", step |-> "send", k |-> s.k, ver |-> s.ver, at |-> "panel"]
           r == [kind |-> "accept", k |-> s.k, arg |-> s.ver]
<1>1. "payee" \in Parties /\ s \in Payload /\ s.ver \in Nat \ {0}
  BY <1>0 DEF SendAcceptance, IInv, TypeOK, PanelKept, Parties, Payload, None
<1>2. /\ s.k \in Custodies /\ stored["payee"][s.k] \in {0, s.ver}
      /\ stored' = [stored EXCEPT !["payee"][s.k] = s.ver]
      /\ unsent' = [unsent EXCEPT !["payee"] = unsent["payee"] \union {s.k}]
  <2>1. s.k = custody["payee"] /\ custody["payee"] # 0
    BY <1>0 DEF SendAcceptance, MayAccept, MaySave
  <2>2. s.k \in Custodies
    BY <1>1, <2>1, DealAssumption DEF Custodies, Payload
  <2> QED
    BY <1>0, <2>1, <2>2 DEF SendAcceptance, MaySave, saveRekberSecrets
<1>3. ops' = ops \union {h} /\ prompts' = prompts \union {r}
  BY <1>0 DEF SendAcceptance, Run, sendEscrowCoordinationAction, Ask
<1>4. UNCHANGED <<custody, mine, unread, pend, signed, creates, accepts, esc>>
  BY DEF SendAcceptance, pageVars, chainVars
<1>5. h \in Handler /\ r \in Request
  BY <1>1, <1>2 DEF Handler, Acts, Request, Payload
<1>7. /\ stored' \in [Parties -> [Custodies -> Nat]] /\ unsent' \in [Parties -> SUBSET Custodies]
      /\ Grows /\ UnsentKept' /\ Backed("payee", s.k, s.ver)' /\ PayerVersions'
  BY <1>1, <1>2, SaveStep
<1>8. HandlerKept(h)' /\ RequestKept(r)'
  BY <1>2, <1>7 DEF HandlerKept, RequestKept, Backed
<1>9. TypeOK'
  BY <1>3, <1>4, <1>5, <1>7 DEF IInv, TypeOK
<1>10. PanelKept'
  <2>1. (pend["payer"] # None => Backed("payer", pend["payer"].k, pend["payer"].ver))'
    BY <1>4, <1>7 DEF IInv, PanelKept, Parties, Grows, Backed
  <2> QED
    BY <1>4, <2>1 DEF IInv, PanelKept
<1> QED
  BY <1>3, <1>4, <1>7, <1>8, <1>9, <1>10, DeviceStep

\* A handler that ends well saves once more what was stored before it sent.
LEMMA SucceedsStep ==
    ASSUME IInv, NEW o \in ops, Succeeds(o)
    PROVE  IInv'
<1>1. o \in Handler /\ HandlerKept(o)
  BY Handlers DEF IInv, Succeeds
<1>2. /\ UNCHANGED <<custody, unread, mine, signed, creates, accepts, esc, prompts>>
      /\ ops' \subseteq ops
      /\ pend' = pend \/ pend' = [pend EXCEPT ![o.who] = None]
  BY EndHandlers DEF Succeeds, chainVars
<1>3. /\ stored' \in [Parties -> [Custodies -> Nat]] /\ unsent' \in [Parties -> SUBSET Custodies]
      /\ Grows /\ UnsentKept' /\ PayerVersions'
  <2>1. CASE o.act \in {"setup", "accept"}
    <3>1. o.ver \in Nat \ {0} /\ o.k \in Custodies /\ o.who \in Parties /\ stored[o.who][o.k] = o.ver
      BY <1>1, <2>1 DEF Succeeds, HandlerKept, Handler, Backed
    <3>2. /\ stored' = [stored EXCEPT ![o.who][o.k] = o.ver]
          /\ unsent' = [unsent EXCEPT ![o.who] = unsent[o.who] \ {o.k}]
      BY <2>1 DEF Succeeds, saveRekberSecrets
    <3>3. o.who = "payer" => o.ver = 1
      BY <3>1 DEF IInv, PayerVersions
    <3> QED
      BY <3>1, <3>2, <3>3, SaveStep
  <2>2. CASE o.act \notin {"setup", "accept"}
    BY <2>2 DEF Succeeds, IInv, TypeOK, Grows, UnsentKept, PayerVersions
  <2> QED
    BY <2>1, <2>2
<1>4. None \in Payload
  BY DealAssumption DEF None, Payload
<1>5. TypeOK'
  BY <1>1, <1>2, <1>3, <1>4 DEF IInv, TypeOK
<1>6. PanelKept'
  BY <1>1, <1>2, <1>3, BackedStays DEF IInv, TypeOK, PanelKept, Parties, Handler
<1> QED
  BY <1>2, <1>3, <1>5, <1>6, DeviceStep

-----------------------------------------------------------------------------
(* Calls of the custody contract, and the release record.                  *)

\* The setup a panel follows was sent by a payer that stored it.
LEMMA DiscoveredKept ==
    ASSUME IInv, discoveredCreate # 0
    PROVE  Backed("payer", discoveredCreate, 1)
BY DEF IInv, TypeOK, ChainKept, discoveredCreate, Last

LEMMA CallTaps ==
    ASSUME IInv, handleFund \/ handleAuthorizeRelease \/ handleClaimPayment \/ handleRefund
    PROVE  IInv'
<1> DEFINE h(c, a, k, ver) == [who |-> c, act |-> a, step |-> "send", k |-> k, ver |-> ver, at |-> "panel"]
           r(kind, k, arg) == [kind |-> kind, k |-> k, arg |-> arg]
<1> USE DEF Ask, Run
<1>1. \A c \in Parties : custody[c] # 0 => custody[c] \in Custodies
  BY DealAssumption DEF IInv, TypeOK, Custodies
<1>2. \A c \in Parties, a \in {"fund", "release", "claim", "refund"}, k \in Custodies, ver \in Nat :
          h(c, a, k, ver) \in Handler /\ HandlerKept(h(c, a, k, ver))
  BY DealAssumption DEF Handler, Acts, HandlerKept, Custodies
<1>3. \A kind \in {"release", "claim", "refund"}, k \in Custodies, arg \in Nat :
          r(kind, k, arg) \in Request /\ RequestKept(r(kind, k, arg))
  BY DEF Request, RequestKept
<1>4. "payer" \in Parties /\ "payee" \in Parties /\ mine["payee"] \in Nat
  BY DEF Parties, IInv, TypeOK
<1>5. CASE handleFund
  <2> DEFINE k == custody["payer"]
  <2>1. PICK a \in AcceptsOf(k) :
            ops' = ops \union {h("payer", "fund", k, a.ver)} /\ prompts' = prompts \union {r("fund", k, a.ver)}
    BY <1>5 DEF handleFund, depositEscrow
  <2>2. a \in accepts /\ a.k = k /\ a.ver \in Nat /\ Backed("payee", k, a.ver)
    BY DEF AcceptsOf, verifyRekberAcceptance, IInv, TypeOK, ChainKept
  <2>3. k \in Custodies /\ Backed("payer", k, 1)
    BY <1>1, <1>4, <1>5, DiscoveredKept DEF handleFund
  <2>4. r("fund", k, a.ver) \in Request /\ RequestKept(r("fund", k, a.ver))
    BY <2>2, <2>3 DEF Request, RequestKept
  <2>5. UNCHANGED <<pageVars, deviceVars, chainVars>>
    BY <1>5 DEF handleFund
  <2> HIDE DEF h, r, k
  <2> QED
    BY <1>2, <1>4, <2>1, <2>2, <2>3, <2>4, <2>5, AskStep
<1>6. CASE handleAuthorizeRelease
  <2>1. /\ ops' = ops \union {h("payer", "release", custody["payer"], 0)}
        /\ prompts' = prompts \union {r("release", custody["payer"], 0)}
        /\ custody["payer"] # 0 /\ UNCHANGED <<pageVars, deviceVars, chainVars>>
    BY <1>6 DEF handleAuthorizeRelease, sendEscrowCoordinationAction
  <2> HIDE DEF h, r
  <2> QED
    BY <1>1, <1>2, <1>3, <1>4, <2>1, AskStep
<1>7. CASE handleClaimPayment
  <2>1. /\ ops' = ops \union {h("payee", "claim", custody["payee"], mine["payee"])}
        /\ prompts' = prompts \union {r("claim", custody["payee"], mine["payee"])}
        /\ custody["payee"] # 0 /\ UNCHANGED <<pageVars, deviceVars, chainVars>>
    BY <1>7 DEF handleClaimPayment, releaseEscrow
  <2> HIDE DEF h, r
  <2> QED
    BY <1>1, <1>2, <1>3, <1>4, <2>1, AskStep
<1>8. CASE handleRefund
  <2>1. /\ ops' = ops \union {h("payer", "refund", custody["payer"], 0)}
        /\ prompts' = prompts \union {r("refund", custody["payer"], 0)}
        /\ custody["payer"] # 0 /\ UNCHANGED <<pageVars, deviceVars, chainVars>>
    BY <1>8 DEF handleRefund, refundEscrow
  <2> HIDE DEF h, r
  <2> QED
    BY <1>1, <1>2, <1>3, <1>4, <2>1, AskStep
<1> QED
  BY <1>5, <1>6, <1>7, <1>8

\* What the handlers of the chat are made of.
LEMMA WorkShape ==
    ASSUME IInv
    PROVE  /\ \A o \in ops : SubmitsWork(o) \/ ReviewsWork(o) \/ WorkEnds(o) => o \in WorkHandler /\ o.k \in Custodies
           /\ \A o \in ops : TakesBusy(o) /\ o \in WorkHandler => \E h \in WorkHandler :
                 /\ h.who = o.who /\ h.act = o.act /\ h.k = o.k /\ h.step = "send"
                 /\ ops' = (ops \ {o}) \union {h}
           /\ (\/ \E k \in Custodies : sendDirectWorkSubmission(k) \/ sendDirectWorkReview(k)
               \/ \E o \in ops : SubmitsWork(o) \/ ReviewsWork(o) \/ WorkEnds(o)) =>
                 \A h \in ops' : h \in ops \/ h \in WorkHandler
<1> USE DEF IInv, TypeOK, Parties
<1>1. ASSUME NEW o \in ops, SubmitsWork(o) \/ ReviewsWork(o) \/ WorkEnds(o)
      PROVE  o \in WorkHandler /\ o.k \in Custodies
  BY <1>1 DEF SubmitsWork, ReviewsWork, WorkEnds, Handler, WorkHandler, Acts
<1>2. ASSUME NEW o \in ops, TakesBusy(o), o \in WorkHandler
      PROVE  \E h \in WorkHandler : /\ h.who = o.who /\ h.act = o.act /\ h.k = o.k /\ h.step = "send"
                                     /\ ops' = (ops \ {o}) \union {h}
  <2>1. [o EXCEPT !.step = "send"] \in WorkHandler
    BY <1>2 DEF WorkHandler
  <2>2. [o EXCEPT !.step = "send"].who = o.who /\ [o EXCEPT !.step = "send"].act = o.act
        /\ [o EXCEPT !.step = "send"].k = o.k /\ [o EXCEPT !.step = "send"].step = "send"
    BY <1>2 DEF WorkHandler
  <2> QED
    BY <1>2, <2>1, <2>2 DEF TakesBusy
<1>3. ASSUME NEW k \in Custodies, sendDirectWorkSubmission(k) \/ sendDirectWorkReview(k)
      PROVE  \A h \in ops' : h \in ops \/ h \in WorkHandler
  BY <1>3 DEF sendDirectWorkSubmission, sendDirectWorkReview, Tap, WorkHandler
<1>4. ASSUME NEW o \in ops, SubmitsWork(o) \/ ReviewsWork(o) \/ WorkEnds(o)
      PROVE  \A h \in ops' : h \in ops \/ h \in WorkHandler
  BY <1>1, <1>2, <1>4 DEF SubmitsWork, ReviewsWork, WorkEnds
<1> QED
  BY <1>1, <1>2, <1>3, <1>4

\* The handlers of the chat keep nothing on the device.
LEMMA WorkSteps ==
    ASSUME IInv, \/ \E k \in Custodies : sendDirectWorkSubmission(k) \/ sendDirectWorkReview(k)
                 \/ \E o \in ops : SubmitsWork(o) \/ ReviewsWork(o) \/ WorkEnds(o)
    PROVE  IInv'
<1>1. UNCHANGED <<pageVars, deviceVars, chainVars>>
  BY DEF sendDirectWorkSubmission, sendDirectWorkReview, Tap, SubmitsWork, ReviewsWork, TakesBusy, WorkEnds
<1>2. \A h \in ops' : h \in ops \/ h \in WorkHandler
  BY WorkShape
<1>3. prompts' = prompts \/ \E r \in Request : RequestKept(r) /\ prompts' = prompts \union {r}
  <2> SUFFICES ASSUME NEW o \in ops, SubmitsWork(o) \/ ReviewsWork(o), prompts' # prompts
               PROVE  \E r \in Request : RequestKept(r) /\ prompts' = prompts \union {r}
    BY DEF sendDirectWorkSubmission, sendDirectWorkReview, Tap, WorkEnds
  <2>1. o.k \in Custodies
    BY WorkShape DEF SubmitsWork, ReviewsWork
  <2>2. PICK k : k = o.k
    OBVIOUS
  <2>3. PICK kind \in {"submit", "confirm", "revise"}, round \in {esc[k].sub, esc[k].rev} :
            prompts' = prompts \union {[kind |-> kind, k |-> k, arg |-> round]}
    BY <2>2 DEF SubmitsWork, ReviewsWork, ApproveWork, RequestRevision, Ask,
           submitRekberFulfillment, confirmRekberFulfillment, requestRekberRevision, invokeRekberWorkflowAction
  <2> DEFINE r == [kind |-> kind, k |-> k, arg |-> round]
  <2>4. r \in Request /\ RequestKept(r)
    BY <2>1, <2>2 DEF IInv, TypeOK, Record, Request, RequestKept
  <2> QED
    BY <2>3, <2>4
<1>4. TypeOK' /\ Grows /\ PayerVersions' /\ UnsentKept' /\ PanelKept'
  <2>1. UNCHANGED <<custody, mine, unread, pend, signed, stored, unsent, creates, accepts, esc>>
    BY <1>1 DEF pageVars, deviceVars, chainVars
  <2>2. TypeOK'
    BY <1>2, <1>3, <2>1 DEF IInv, TypeOK
  <2> QED
    BY <2>1, <2>2 DEF IInv, Grows, PayerVersions, UnsentKept, PanelKept, Backed
<1>5. UNCHANGED <<creates, accepts, esc, stored>>
  BY <1>1 DEF chainVars, deviceVars
<1>6. (\A o \in ops' \ ops : HandlerKept(o)') /\ \A p \in prompts' \ prompts : RequestKept(p)'
  BY <1>2, <1>3, <1>5 DEF HandlerKept, RequestKept, WorkHandler, Backed
<1> QED
  BY <1>4, <1>5, <1>6, DeviceStep

-----------------------------------------------------------------------------
(* Approvals.                                                              *)

LEMMA ApproveStep ==
    ASSUME IInv, NEW p \in prompts, Approve(p)
    PROVE  IInv'
<1>1. p \in Request /\ RequestKept(p) /\ prompts' \subseteq prompts
  BY DEF Approve, IInv, TypeOK
<1>2. UNCHANGED <<pend, ops, signed, stored, unsent>>
  BY DEF Approve, lockVars, deviceVars
<1>3. PayerVersions' /\ PanelKept' /\ UnsentKept' /\ (\A o \in ops' : HandlerKept(o)')
      /\ \A q \in prompts' : RequestKept(q)'
  BY <1>1, <1>2 DEF IInv, PayerVersions, PanelKept, UnsentKept, HandlerKept, RequestKept, Backed
<1>4. TypeOK' /\ ChainKept'
  <2>1. CASE StoreCreate(p)
    <3>1. Backed("payer", p.k, 1) /\ p.k \in Custodies
      BY <1>1, <2>1 DEF StoreCreate, RequestKept, Backed
    <3>2. creates' = Append(creates, p.k) /\ UNCHANGED <<accepts, esc>>
      BY <2>1 DEF StoreCreate
    <3>3. creates' \in Seq(Custodies) /\ \A i \in DOMAIN creates' : creates'[i] = p.k \/ (i \in DOMAIN creates /\ creates'[i] = creates[i])
      BY <3>1, <3>2 DEF IInv, TypeOK
    <3>4. /\ custody' \in [Parties -> 0 .. MaxCustodies] /\ mine' \in [Parties -> Nat]
          /\ unread' \in [Parties -> BOOLEAN] /\ \A c \in Parties : unread'[c] => custody'[c] # 0
      BY <2>1, <3>1, DealAssumption DEF StoreCreate, IInv, TypeOK, Custodies
    <3>5. TypeOK'
      BY <1>1, <1>2, <3>2, <3>3, <3>4 DEF IInv, TypeOK
    <3>6. ChainKept'
      BY <1>2, <3>1, <3>2, <3>3 DEF IInv, ChainKept, Backed
    <3> QED
      BY <3>5, <3>6
  <2>2. CASE StoreAccept(p)
    <3>1. Backed("payee", p.k, p.arg)
      BY <1>1, <2>2 DEF StoreAccept, RequestKept
    <3>2. accepts' = accepts \union {[k |-> p.k, ver |-> p.arg]} /\ UNCHANGED <<custody, unread, mine, creates, esc>>
      BY <2>2 DEF StoreAccept
    <3> QED
      BY <1>1, <1>2, <3>1, <3>2 DEF IInv, TypeOK, ChainKept, Backed, Request
  <2>3. CASE StoreRelease(p)
    BY <1>1, <1>2, <2>3 DEF StoreRelease, IInv, TypeOK, ChainKept, Backed
  <2>4. CASE Custody(p)
    <3>1. esc' = [esc EXCEPT ![p.k] = After(p)] /\ UNCHANGED <<custody, unread, mine, creates, accepts>>
      BY <2>4 DEF Custody
    <3>2. esc[p.k] \in Record /\ p.k \in Custodies /\ p.arg \in Nat
      BY <1>1 DEF IInv, TypeOK, Request
    <3>3. After(p) \in Record
      <4> DEFINE e == esc[p.k]
      <4>1. e \in Record /\ Empty \in Record /\ ReviewStarts \in {"confirmed", "submitted"}
        BY <3>2 DEF Record, Empty, ReviewStarts
      <4>2. p.kind \in {"fund", "submit", "confirm", "revise", "claim", "refund"}
        BY <2>4 DEF Custody, Accepted
      <4>3. \A q \in Record : \A st \in {"funded", "submitted", "confirmed", "revision", "released", "refunded"} :
                [q EXCEPT !.st = st] \in Record
        BY DEF Record
      <4>4. \A q \in Record : \A n \in Nat : /\ [q EXCEPT !.ver = n] \in Record
                                           /\ [q EXCEPT !.sub = n] \in Record
                                           /\ [q EXCEPT !.rev = n] \in Record
        BY DEF Record
      <4>5. e.sub + 1 \in Nat /\ e.rev + 1 \in Nat
        BY <4>1 DEF Record
      <4>6. [Empty EXCEPT !.st = "funded", !.ver = p.arg] \in Record
        BY <3>2, <4>1, <4>3, <4>4
      <4>7. [e EXCEPT !.st = ReviewStarts, !.sub = e.sub + 1] \in Record
        BY <4>1, <4>3, <4>4, <4>5
      <4>8. [e EXCEPT !.st = "revision", !.rev = e.rev + 1] \in Record
        BY <4>1, <4>3, <4>4, <4>5
      <4> HIDE DEF e
      <4> QED
        BY <4>1, <4>2, <4>3, <4>6, <4>7, <4>8 DEF After, e
    <3>4. Backed("payer", p.k, 1) /\ Backed("payee", p.k, After(p).ver)
      BY <1>1, <2>4, <3>2 DEF Custody, Accepted, After, Record, Empty, ReviewStarts, RequestKept, IInv, ChainKept
    <3>5. TypeOK'
      BY <1>1, <1>2, <3>1, <3>2, <3>3 DEF IInv, TypeOK
    <3>6. ChainKept'
      BY <1>2, <3>1, <3>2, <3>4 DEF IInv, TypeOK, ChainKept, Backed
    <3> QED
      BY <3>5, <3>6
  <2> QED
    BY <2>1, <2>2, <2>3, <2>4 DEF Approve
<1> QED
  BY <1>3, <1>4 DEF IInv

-----------------------------------------------------------------------------
\* The invariant holds in every reachable state.
THEOREM Invariance == Spec => []IInv
<1>1. Init => IInv
  BY InitInvariant
<1>2. IInv /\ [Next]_vars => IInv'
  <2> SUFFICES ASSUME IInv, [Next]_vars PROVE IInv'
    OBVIOUS
  <2>1. CASE \E c \in Parties : Open(c) \/ Close(c) \/ Reload(c) \/ LoadSecrets(c) \/ ReleaseLock(c)
    BY <2>1, PanelSteps, LoadStep
  <2>2. CASE Taps
    BY <2>2, SignTaps, SendSetupStep, SendAcceptanceStep, CallTaps, WorkSteps DEF Taps
  <2>3. CASE \E o \in ops : SetupSigned(o) \/ AcceptSigned(o) \/ Succeeds(o)
    BY <2>3, SetupSignedStep, AcceptSignedStep, SucceedsStep
  <2>4. CASE \E p \in prompts : Approve(p)
    BY <2>4, ApproveStep
  <2>6. CASE \E o \in ops : SubmitsWork(o) \/ ReviewsWork(o) \/ WorkEnds(o)
    BY <2>6, WorkSteps
  <2>5. CASE (\E o \in ops : Fails(o)) \/ (\E p \in prompts : Decline(p)) \/ (\E k \in Custodies : Deadline(k))
               \/ UNCHANGED vars
    BY <2>5, SilentSteps
  <2> QED
    BY <2>1, <2>2, <2>3, <2>4, <2>5, <2>6 DEF Next
<1> QED
  BY <1>1, <1>2, PTL DEF Spec

\* Whatever approval reached the chain, and whatever custody was funded with
\* it, its author's device still holds the capabilities of exactly that
\* approval: through reloads, late wallets and a second setup or acceptance.
THEOREM CapabilitiesSurvive == Spec => []CapabilitiesKept
<1>1. IInv => CapabilitiesKept
  BY DEF IInv, ChainKept, CapabilitiesKept, Backed
<1> QED
  BY <1>1, Invariance, PTL

-----------------------------------------------------------------------------
(* The locks of the two pages. A handler that runs on a panel holds the    *)
(* lock unless the chain has its purpose already, and then every handler   *)
(* of the same kind has it, because all follow the one setup: so a late    *)
(* handler finds a lock of its own kind only when that one is moot too.    *)

LockTypes ==
  /\ act \in [Parties -> Acts \union {"none"}] /\ busy \in [Parties -> BOOLEAN]
  /\ crossed \in [Parties -> BOOLEAN]
  /\ \A o \in ops \ WorkHandler : o.act \in {"accept", "claim"} <=> o.who = "payee"

\* Some setup on chain is for this custody.
Created(k) == k \in ToSet(creates)

\* Everything but a setup is about a custody whose setup is on chain, and a
\* custody is funded with the commitments of an acceptance that is there too.
Traced ==
  /\ custody["payee"] # 0 => Created(custody["payee"])
  /\ \A o \in ops : o.act # "setup" => Created(o.k)
  /\ \A p \in prompts :
       /\ p.kind \in {"release", "fund"} => Created(p.k)
       /\ p.kind = "fund" => [k |-> p.k, ver |-> p.arg] \in accepts
  /\ \A k \in releases : Created(k)
  /\ \A k \in Custodies : esc[k].st # "none" => Created(k) /\ [k |-> k, ver |-> esc[k].ver] \in accepts

OnPanel(c) == {o \in ops : o.who = c /\ o.at = "panel"}

\* One handler of a kind runs on a panel, and one whose panel was closed runs
\* alone until it gives the page back.
Exclusive(c) ==
  /\ act[c] # "none" => busy[c]
  /\ \A o \in OnPanel(c) : ~Moot(o) => act[c] = o.act
  /\ \A o, q \in OnPanel(c) : o.act = q.act => o = q
  /\ \A o \in ops : o.who = c /\ o.at = "holds" =>
       /\ busy[c] /\ act[c] = "none"
       /\ \A q \in ops : q.who = c /\ q.at \in {"panel", "holds"} => q = o

\* A work handler that has the page busy has it alone.
Working(c) == {o \in ops : o.who = c /\ o.at = "chat" /\ o.step = "send"}
Alone(c) ==
  \A o \in Working(c) :
    /\ busy[c] /\ act[c] = "none" /\ Working(c) = {o}
    /\ \A q \in ops : q.who = c => q.at # "holds"

Locks == OneLifecycle => \A c \in Parties : ~crossed[c] => Exclusive(c) /\ Alone(c)

LEMMA InitLocks == Init => LockTypes /\ Traced /\ Locks
BY DEF Init, LockTypes, Traced, Locks, Exclusive, OnPanel, Alone, Working, Parties, Empty

\* Handlers of one kind are moot together.
LEMMA MootTogether ==
    ASSUME OneLifecycle, NEW o, NEW q, o.act = q.act, o.act \in Acts,
           o.act # "setup" => Created(o.k) /\ Created(q.k)
    PROVE  Moot(o) <=> Moot(q)
<1>1. o.act # "setup" => o.k = q.k
  BY DEF OneLifecycle, Created, ToSet
<1> QED
  BY <1>1 DEF Moot, Done, Acts

LEMMA MootSame ==
    ASSUME UNCHANGED <<creates, accepts, releases, esc>>, NEW o
    PROVE  (Moot(o)' <=> Moot(o)) /\ (OneLifecycle' <=> OneLifecycle) /\ \A k : Created(k)' <=> Created(k)
BY DEF Moot, Done, AcceptsOf, OneLifecycle, Created

\* Nobody touches the locks, and what was moot stays so.
LEMMA LocksStay ==
    ASSUME Locks, UNCHANGED <<act, busy, crossed, ops>>, OneLifecycle' => OneLifecycle,
           \A o \in ops : o.at = "panel" /\ Moot(o) => Moot(o)'
    PROVE  Locks'
<1> SUFFICES ASSUME OneLifecycle', NEW c \in Parties, ~crossed'[c] PROVE Exclusive(c)' /\ Alone(c)'
  BY DEF Locks
<1>1. Exclusive(c) /\ Alone(c)
  BY DEF Locks
<1> QED
  BY <1>1 DEF Exclusive, OnPanel, Alone, Working

\* A tap on a page that is not busy, for something the chain does not have.
LEMMA LockTaken ==
    ASSUME IInv, LockTypes, Traced, Locks, NEW h \in Handler, h.at = "panel", ~busy[h.who],
           ops' = ops \union {h}, act' = [act EXCEPT ![h.who] = h.act],
           busy' = [busy EXCEPT ![h.who] = TRUE],
           UNCHANGED <<crossed, creates, accepts, releases, esc>>,
           ~Moot(h), h.act # "setup" => Created(h.k)
    PROVE  Locks'
<1> SUFFICES ASSUME OneLifecycle', NEW c \in Parties, ~crossed'[c] PROVE Exclusive(c)' /\ Alone(c)'
  BY DEF Locks
<1>1. OneLifecycle /\ \A o : Moot(o)' <=> Moot(o)
  BY MootSame
<1>2. Exclusive(c) /\ Alone(c)
  BY <1>1 DEF Locks
<1>3. h.who \in Parties /\ h.act \in Acts
  BY DEF Handler
<1>4. CASE c # h.who
  <2>1. act'[c] = act[c] /\ busy'[c] = busy[c]
    BY <1>4 DEF LockTypes
  <2>2. \A o \in ops' : o.who = c => o \in ops
    BY <1>4
  <2> QED
    BY <1>1, <1>2, <1>4, <2>1, <2>2 DEF Exclusive, OnPanel, Alone, Working
<1>5. CASE c = h.who
  <2>1. act'[c] = h.act /\ busy'[c]
    BY <1>3, <1>5 DEF LockTypes
  <2>2. \A o \in ops : o.who = c => o.at # "holds"
    BY <1>2, <1>5 DEF Exclusive
  <2>3. \A o \in OnPanel(c) : Moot(o) /\ o.act # h.act
    <3> SUFFICES ASSUME NEW o \in OnPanel(c) PROVE Moot(o) /\ o.act # h.act
      OBVIOUS
    <3>1. o \in ops /\ o.act \in Acts
      BY Handlers DEF OnPanel, IInv
    <3>2. Moot(o)
      BY <1>2, <1>5, <3>1 DEF Exclusive, Acts
    <3>3. o.act = h.act => (Moot(o) <=> Moot(h))
      BY <1>1, <3>1, MootTogether DEF Traced
    <3> QED
      BY <3>2, <3>3
  <2>4. OnPanel(c)' = OnPanel(c) \union {h}
    BY <1>5 DEF OnPanel
  <2>5. Working(c)' = {}
    BY <1>2, <1>5 DEF Working, Alone
  <2> QED
    BY <1>1, <1>2, <2>1, <2>2, <2>3, <2>4, <2>5 DEF Exclusive, Alone
<1> QED
  BY <1>4, <1>5

\* A handler that ends.
LEMMA LockReturned ==
    ASSUME IInv, LockTypes, Locks, NEW o \in ops, End(o), UNCHANGED <<creates, accepts, releases, esc>>
    PROVE  LockTypes' /\ Locks'
<1> DEFINE holds == o.at = "holds" \/ (o.at = "panel" /\ act[o.who] = o.act)
<1>0. o \in Handler /\ o.who \in Parties /\ o.act # "none" /\ o.at # "chat"
  BY Handlers DEF IInv, End
<1>1. /\ ops' = ops \ {o}
      /\ busy' = IF holds THEN [busy EXCEPT ![o.who] = FALSE] ELSE busy
      /\ act' = IF holds /\ o.at = "panel" THEN [act EXCEPT ![o.who] = "none"] ELSE act
      /\ crossed' = crossed
  BY DEF End, finishRekberAction
<1>2. LockTypes'
  <2>1. busy' \in [Parties -> BOOLEAN]
    BY <1>0, <1>1, Zenon DEF LockTypes
  <2>2. act' \in [Parties -> Acts \union {"none"}]
    BY <1>0, <1>1 DEF LockTypes
  <2> QED
    BY <1>1, <2>1, <2>2 DEF LockTypes
<1>3. Locks'
  <2> SUFFICES ASSUME OneLifecycle', NEW c \in Parties, ~crossed'[c] PROVE Exclusive(c)' /\ Alone(c)'
    BY DEF Locks
  <2>1. OneLifecycle /\ \A q : Moot(q)' <=> Moot(q)
    BY MootSame
  <2>2. Exclusive(c) /\ Alone(c)
    BY <1>1, <2>1 DEF Locks
  <2>3. OnPanel(c)' \subseteq OnPanel(c) /\ Working(c)' = Working(c)
    BY <1>0, <1>1 DEF OnPanel, Working
  <2>4. CASE c # o.who \/ ~holds
    <3>1. act'[c] = act[c] /\ busy'[c] = busy[c]
      BY <1>0, <1>1, <2>4 DEF LockTypes
    <3> QED
      BY <1>1, <2>1, <2>2, <2>3, <3>1 DEF Exclusive, Alone
  <2>5. CASE c = o.who /\ o.at = "holds"
    <3>1. act'[c] = act[c] /\ act[c] = "none" /\ \A q \in ops' : q.who = c => q.at \notin {"panel", "holds"}
      BY <1>1, <2>2, <2>5 DEF Exclusive
    <3>2. Working(c)' = {}
      BY <2>2, <2>3, <2>5 DEF Alone
    <3> QED
      BY <3>1, <3>2 DEF Exclusive, OnPanel, Alone
  <2>6. CASE c = o.who /\ o.at = "panel" /\ act[c] = o.act
    <3>1. act'[c] = "none" /\ act[c] # "none"
      BY <1>0, <1>1, <2>6 DEF LockTypes
    <3>2. \A q \in OnPanel(c)' : Moot(q)
      BY <1>1, <2>2, <2>3, <2>6 DEF Exclusive, OnPanel
    <3>3. \A q \in ops' : q.who = c => q.at # "holds"
      BY <1>1, <2>2, <3>1 DEF Exclusive
    <3>4. Working(c)' = {}
      BY <2>2, <2>3, <3>1 DEF Alone
    <3> QED
      BY <2>1, <2>2, <2>3, <3>1, <3>2, <3>3, <3>4 DEF Exclusive, Alone
  <2> QED
    BY <2>4, <2>5, <2>6
<1> QED
  BY <1>2, <1>3

\* What the page takes for proof is the purpose of every handler of that kind.
LEMMA ProvenIsMoot ==
    ASSUME IInv, LockTypes, Traced, OneLifecycle, NEW c \in Parties, Proven(c),
           NEW q \in ops, q.who = c, q.act = act[c]
    PROVE  Moot(q)
<1>1. q.act \in Acts
  BY Handlers DEF IInv, LockTypes
<1>2. CASE q.act = "setup"
  BY <1>2 DEF Proven, Moot, discoveredCreate
<1>3. CASE q.act # "setup"
  <2>1. Created(q.k)
    BY <1>3 DEF Traced
  <2>2. custody[c] # 0 => custody[c] \in Custodies
    BY DealAssumption DEF IInv, TypeOK, Custodies
  <2>3. Created(custody[c])
    <3>1. CASE act[c] \in {"accept", "claim"}
      <4>1. q.act \in {"accept", "claim"} /\ q \notin WorkHandler
        BY <1>1, <3>1 DEF WorkHandler, Acts
      <4>2. c = "payee" /\ custody[c] # 0
        BY <3>1, <4>1 DEF LockTypes, Proven
      <4> QED
        BY <4>2 DEF Traced
    <3>2. CASE act[c] = "release"
      BY <3>2 DEF Proven, discoveredRelease, Traced
    <3>3. CASE act[c] \in {"fund", "refund"}
      <4>1. custody[c] # 0 /\ esc[custody[c]].st # "none"
        BY <3>3 DEF Proven, funded, custodyVerification
      <4> QED
        BY <2>2, <4>1 DEF Traced
    <3> QED
      BY <1>1, <1>3, <3>1, <3>2, <3>3 DEF Acts
  <2>4. q.k = custody[c]
    BY <2>1, <2>3 DEF OneLifecycle, Created, ToSet
  <2> QED
    BY <1>1, <1>3, <2>4 DEF Proven, Moot, Done, Acts, discoveredRelease, funded, custodyVerification
<1> QED
  BY <1>2, <1>3

\* The panel is closed or loaded again, or sees its purpose on chain.
LEMMA PanelLocks ==
    ASSUME IInv, IInv', LockTypes, Traced, Locks, NEW c \in Parties, Close(c) \/ Reload(c) \/ ReleaseLock(c)
    PROVE  LockTypes' /\ Locks'
<1>0. UNCHANGED <<creates, accepts, releases, esc>>
  BY DEF Close, Reload, ReleaseLock, chainVars
<1>1. /\ act' = [act EXCEPT ![c] = "none"] /\ (busy' = busy \/ busy' = [busy EXCEPT ![c] = FALSE])
      /\ crossed' = crossed \/ (Reload(c) /\ crossed' = [crossed EXCEPT ![c] = FALSE])
  BY DEF Close, Reload, ReleaseLock, Leave
<1>2. LockTypes'
  <2>1. busy' \in [Parties -> BOOLEAN] /\ crossed' \in [Parties -> BOOLEAN]
    BY <1>1, Zenon DEF LockTypes
  <2>2. act' \in [Parties -> Acts \union {"none"}]
    BY <1>1 DEF LockTypes
  <2>3. \A o \in ops' : o \in ops \/ \E q \in ops : q.at = "panel" /\ o.who = q.who /\ o.act = q.act
    <3>1. CASE Close(c)
      <4> DEFINE moved(q) == [q EXCEPT !.at = IF act[c] = q.act THEN "holds" ELSE "gone"]
      <4>1. \A o \in ops' : o \in ops \/ \E q \in ops : q.at = "panel" /\ o = moved(q)
        BY <3>1 DEF Close
      <4>2. \A q \in ops : q.at = "panel" => moved(q).who = q.who /\ moved(q).act = q.act
        BY Handlers DEF IInv, Handler
      <4> HIDE DEF moved
      <4> QED
        BY <4>1, <4>2
    <3>2. CASE Reload(c) \/ ReleaseLock(c)
      BY <3>2 DEF Reload, ReleaseLock
    <3> QED
      BY <3>1, <3>2
  <2>4. ASSUME NEW o \in ops', o \notin WorkHandler PROVE o.act \in {"accept", "claim"} <=> o.who = "payee"
    BY <2>3, <2>4, Handlers DEF LockTypes, IInv
  <2> QED
    BY <2>1, <2>2, <2>4 DEF LockTypes
<1>3. Locks'
  <2> SUFFICES ASSUME OneLifecycle', NEW d \in Parties, ~crossed'[d] PROVE Exclusive(d)' /\ Alone(d)'
    BY DEF Locks
  <2>1. OneLifecycle /\ \A q : Moot(q)' <=> Moot(q)
    BY <1>0, MootSame
  <2>2. d # c \/ ~Reload(c) => Exclusive(d) /\ Alone(d)
    BY <1>1, <2>1 DEF Locks, LockTypes
  <2>3. d # c => act'[d] = act[d] /\ busy'[d] = busy[d]
    BY <1>1 DEF LockTypes
  <2>4. act'[c] = "none"
    BY <1>1 DEF LockTypes
  <2>5. CASE Close(c)
    <3> DEFINE moved(q) == [q EXCEPT !.at = IF act[c] = q.act THEN "holds" ELSE "gone"]
    <3>1. /\ \A q \in OnPanel(c) : moved(q).at = IF act[c] = q.act THEN "holds" ELSE "gone"
          /\ \A q \in OnPanel(c) : moved(q).who = c /\ moved(q).act = q.act
      BY Handlers DEF OnPanel, IInv, Handler
    <3>0. Exclusive(d) /\ Alone(d)
      <4>1. crossed' = crossed
        BY <2>5 DEF Close
      <4> QED
        BY <2>1, <4>1 DEF Locks
    <3>2. ops' = {IF q \in OnPanel(c) THEN moved(q) ELSE q : q \in ops} /\ busy' = busy
      BY <2>5 DEF Close, OnPanel
    <3> HIDE DEF moved
    <3>3. CASE d # c
      <4>1. \A q \in ops' : q.who = d => q \in ops
        BY <3>1, <3>2, <3>3
      <4>2. OnPanel(d)' \subseteq OnPanel(d)
        BY <4>1 DEF OnPanel
      <4>3. Working(d)' = Working(d)
        BY <3>1, <3>2, <3>3 DEF OnPanel, Working
      <4> QED
        BY <2>1, <3>0, <2>3, <3>3, <4>1, <4>2, <4>3 DEF Exclusive, Alone
    <3>4. CASE d = c
      <4>1. OnPanel(c)' = {}
        <5> SUFFICES ASSUME NEW q \in ops', q.who = c, q.at = "panel" PROVE FALSE
          BY DEF OnPanel
        <5>1. PICK p \in ops : q = IF p \in OnPanel(c) THEN moved(p) ELSE p
          BY <3>2
        <5> QED
          BY <3>1, <5>1 DEF OnPanel
      <4>2. ASSUME NEW q \in ops', q.who = c, q.at \in {"panel", "holds"}
            PROVE  \E p \in ops : /\ p.who = c /\ q.at = "holds" /\ busy[c]
                                  /\ \/ p.at = "holds" /\ q = p
                                     \/ p \in OnPanel(c) /\ q = moved(p) /\ act[c] = p.act
        <5>1. PICK p \in ops : q = IF p \in OnPanel(c) THEN moved(p) ELSE p
          BY <3>2
        <5>2. CASE p \in OnPanel(c)
          <6>1. act[c] = p.act /\ q.at = "holds" /\ p.who = c
            BY <3>1, <4>2, <5>1, <5>2 DEF OnPanel
          <6>2. act[c] # "none"
            BY <6>1, Handlers DEF IInv
          <6> QED
            BY <3>0, <3>4, <5>1, <5>2, <6>1, <6>2 DEF Exclusive
        <5>3. CASE p \notin OnPanel(c)
          <6>1. q = p /\ p.who = c /\ p.at \in {"panel", "holds"}
            BY <4>2, <5>1, <5>3
          <6>2. p.at = "holds"
            BY <4>2, <5>3, <6>1 DEF OnPanel
          <6> QED
            BY <3>0, <3>4, <6>1, <6>2 DEF Exclusive
        <5> QED
          BY <5>2, <5>3
      <4>3. \A p, q \in ops : p.who = c /\ p.at = "holds" /\ q.who = c /\ q.at \in {"panel", "holds"} => p = q
        BY <3>0, <3>4 DEF Exclusive
      <4>4. \A p, q \in OnPanel(c) : p.act = q.act => p = q
        BY <3>0, <3>4 DEF Exclusive
      <4>5. \A p, q \in ops' : p.who = c /\ p.at \in {"panel", "holds"} /\ q.who = c /\ q.at \in {"panel", "holds"} => p = q
        <5> SUFFICES ASSUME NEW p \in ops', NEW q \in ops', p.who = c, p.at \in {"panel", "holds"},
                            q.who = c, q.at \in {"panel", "holds"}
                     PROVE  p = q
          OBVIOUS
        <5>1. PICK x \in ops : /\ x.who = c
                               /\ \/ x.at = "holds" /\ p = x
                                  \/ x \in OnPanel(c) /\ p = moved(x) /\ act[c] = x.act
          BY <4>2
        <5>2. PICK y \in ops : /\ y.who = c
                               /\ \/ y.at = "holds" /\ q = y
                                  \/ y \in OnPanel(c) /\ q = moved(y) /\ act[c] = y.act
          BY <4>2
        <5>3. x = y
          BY <4>3, <4>4, <5>1, <5>2 DEF OnPanel
        <5> QED
          BY <5>1, <5>2, <5>3 DEF OnPanel
      <4>6. \A q \in ops' : q.who = c /\ q.at = "holds" => busy[c]
        BY <4>2
      <4>7. Exclusive(c)'
        BY <2>4, <3>2, <4>1, <4>5, <4>6 DEF Exclusive
      <4>8. ASSUME NEW o \in Working(c)'
            PROVE  busy'[c] /\ Working(c)' = {o} /\ \A q \in ops' : q.who = c => q.at # "holds"
        <5>1. Working(c)' = Working(c)
          BY <3>1, <3>2 DEF OnPanel, Working
        <5>2. busy[c] /\ act[c] = "none" /\ Working(c) = {o} /\ \A q \in ops : q.who = c => q.at # "holds"
          BY <3>0, <3>4, <4>8, <5>1 DEF Alone
        <5>3. \A q \in OnPanel(c) : moved(q).at = "gone"
          BY <3>1, <5>2, Handlers DEF OnPanel, IInv
        <5>4. \A q \in ops' : q.who = c => q.at # "holds"
          BY <3>2, <5>2, <5>3
        <5> QED
          BY <3>2, <5>1, <5>2, <5>4
      <4> QED
        BY <2>4, <3>4, <4>7, <4>8 DEF Alone
    <3> QED
      BY <3>3, <3>4
  <2>6. CASE Reload(c)
    <3>1. ops' = {q \in ops : q.who # c}
      BY <2>6 DEF Reload
    <3>2. /\ OnPanel(d)' = IF d = c THEN {} ELSE OnPanel(d)
          /\ Working(d)' = IF d = c THEN {} ELSE Working(d)
      BY <3>1 DEF OnPanel, Working
    <3>3. CASE d = c
      BY <2>4, <3>1, <3>2, <3>3 DEF Exclusive, Alone
    <3>4. CASE d # c
      BY <2>1, <2>2, <2>3, <3>1, <3>2, <3>4 DEF Exclusive, Alone
    <3> QED
      BY <3>3, <3>4
  <2>7. CASE ReleaseLock(c)
    <3>1. ops' = ops /\ Proven(c)
      BY <2>7 DEF ReleaseLock
    <3>2. OnPanel(d)' = OnPanel(d) /\ Working(d)' = Working(d)
      BY <3>1 DEF OnPanel, Working
    <3>0. Exclusive(d) /\ Alone(d)
      <4>1. crossed' = crossed
        BY <2>7 DEF ReleaseLock
      <4> QED
        BY <2>1, <4>1 DEF Locks
    <3>3. CASE d # c
      BY <2>1, <3>0, <2>3, <3>1, <3>2, <3>3 DEF Exclusive, Alone
    <3>4. CASE d = c
      <4>1. act[c] # "none"
        BY <3>1 DEF Proven
      <4>2. \A q \in ops : q.who = c => q.at # "holds"
        BY <3>0, <3>4, <4>1 DEF Exclusive
      <4>3. ASSUME NEW q \in OnPanel(c) PROVE Moot(q)
        <5>1. q \in ops /\ q.act \in Acts /\ q.who = c
          BY Handlers DEF OnPanel, IInv
        <5>2. CASE q.act = act[c]
          BY <2>1, <3>1, <5>1, <5>2, ProvenIsMoot
        <5>3. CASE q.act # act[c]
          BY <3>0, <3>4, <5>3 DEF Exclusive
        <5> QED
          BY <5>2, <5>3
      <4>4. Working(c) = {}
        BY <3>0, <3>4, <4>1 DEF Alone
      <4> QED
        BY <2>1, <3>0, <2>4, <3>1, <3>2, <3>4, <4>2, <4>3, <4>4 DEF Exclusive, Alone
    <3> QED
      BY <3>3, <3>4
  <2> QED
    BY <2>5, <2>6, <2>7
<1> QED
  BY <1>2, <1>3

\* Handlers end or lose their panel, requests are answered without effect.
LEMMA TracedStays ==
    ASSUME Traced, UNCHANGED <<creates, accepts, releases, esc>>, prompts' \subseteq prompts,
           custody'["payee"] \in {0, custody["payee"]} \/ Created(custody'["payee"]),
           \A o \in ops' : \E q \in ops : o.act = q.act /\ o.k = q.k
    PROVE  Traced'
BY DEF Traced, Created

LEMMA PanelTraced ==
    ASSUME IInv, Traced, NEW c \in Parties,
           Open(c) \/ Close(c) \/ Reload(c) \/ LoadSecrets(c) \/ ReleaseLock(c)
    PROVE  Traced'
<1>1. UNCHANGED <<creates, accepts, releases, esc, prompts>>
  BY DEF Open, Close, Reload, LoadSecrets, ReleaseLock, chainVars
<1>2. \A o \in ops' : \E q \in ops : o.act = q.act /\ o.k = q.k
  <2>1. CASE Close(c)
    <3> DEFINE moved(q) == [q EXCEPT !.at = IF act[c] = q.act THEN "holds" ELSE "gone"]
    <3>1. \A o \in ops' : o \in ops \/ \E q \in ops : q.at = "panel" /\ o = moved(q)
      BY <2>1 DEF Close
    <3>2. \A q \in ops : q.at = "panel" => moved(q).k = q.k /\ moved(q).act = q.act
      BY Handlers DEF IInv, Handler
    <3> HIDE DEF moved
    <3> QED
      BY <3>1, <3>2
  <2>2. CASE Open(c) \/ Reload(c) \/ LoadSecrets(c) \/ ReleaseLock(c)
    BY <2>2 DEF Open, Reload, LoadSecrets, ReleaseLock, lockVars
  <2> QED
    BY <2>1, <2>2
<1>3. custody'["payee"] \in {0, custody["payee"]} \/ Created(custody'["payee"])
  <2>1. discoveredCreate = 0 \/ Created(discoveredCreate)
    BY DEF discoveredCreate, Created, ToSet, Last, IInv, TypeOK
  <2>2. custody' \in {custody, [custody EXCEPT ![c] = 0], [custody EXCEPT ![c] = discoveredCreate]}
    BY DEF Open, Close, Reload, LoadSecrets, ReleaseLock, Leave
  <2> QED
    BY <2>1, <2>2 DEF IInv, TypeOK, Parties
<1> QED
  BY <1>1, <1>2, <1>3, TracedStays

\* A handler that signed, succeeded or failed is gone; only the payer's panel
\* takes a new custody then.
LEMMA HandlerTraced ==
    ASSUME IInv, Traced, NEW o \in ops, SetupSigned(o) \/ AcceptSigned(o) \/ Succeeds(o) \/ Fails(o)
    PROVE  Traced' /\ End(o) /\ UNCHANGED <<creates, accepts, releases, esc>>
<1>1. End(o) /\ UNCHANGED <<creates, accepts, releases, esc, prompts>>
  BY DEF SetupSigned, AcceptSigned, Succeeds, Fails, chainVars
<1>2. custody'["payee"] = custody["payee"]
  BY DEF SetupSigned, AcceptSigned, Succeeds, Fails, pageVars, IInv, TypeOK, Parties
<1>3. \A q \in ops' : q \in ops
  BY <1>1 DEF End
<1> QED
  BY <1>1, <1>2, <1>3, TracedStays

\* A tap that runs a handler for something the chain does not have.
LEMMA RunStep ==
    ASSUME IInv, LockTypes, Traced, Locks, NEW c \in Parties, NEW a \in Acts, NEW step, NEW k, NEW ver,
           Ready(c), Run(c, a, step, k, ver), [who |-> c, act |-> a, step |-> step, k |-> k, ver |-> ver, at |-> "panel"] \in Handler \union WorkHandler,
           a \in {"accept", "claim"} <=> c = "payee", a # "setup" => Created(k),
           CASE a = "setup" -> creates = <<>>
             [] a = "accept" -> AcceptsOf(k) = {}
             [] a = "release" -> k \notin releases
             [] a = "fund" -> esc[k].st = "none"
             [] a = "claim" -> esc[k].st # "released"
             [] a = "refund" -> esc[k].st # "refunded",
           UNCHANGED <<custody, creates, accepts, releases, esc>>,
           \A r \in prompts' \ prompts :
             /\ r.kind \in {"release", "fund"} => Created(r.k)
             /\ r.kind = "fund" => [k |-> r.k, ver |-> r.arg] \in accepts
    PROVE  LockTypes' /\ Traced' /\ Locks'
<1> DEFINE h == [who |-> c, act |-> a, step |-> step, k |-> k, ver |-> ver, at |-> "panel"]
<1>1. h.who = c /\ h.act = a /\ h.k = k /\ h.at = "panel" /\ h \in Handler
  BY DEF WorkHandler
<1>2. /\ ops' = ops \union {h} /\ ~busy[c]
      /\ act' = [act EXCEPT ![c] = a] /\ busy' = [busy EXCEPT ![c] = TRUE] /\ crossed' = crossed
  BY DEF Run, beginRekberAction, Ready
<1> HIDE DEF h
<1>3. ~Moot(h)
  BY <1>1 DEF Moot, Done, Acts
<1>4. Locks'
  BY <1>1, <1>2, <1>3, LockTaken
<1>5. LockTypes'
  <2>1. busy' \in [Parties -> BOOLEAN]
    BY <1>2, Zenon DEF LockTypes
  <2>2. act' \in [Parties -> Acts \union {"none"}]
    BY <1>2 DEF LockTypes
  <2> QED
    BY <1>1, <1>2, <2>1, <2>2 DEF LockTypes
<1>6. Traced'
  BY <1>1, <1>2 DEF Traced, Created
<1> QED
  BY <1>4, <1>5, <1>6

LEMMA SignLocks ==
    ASSUME IInv, IInv', LockTypes, Traced, Locks,
           handleStartRekber \/ SendSetup \/ handleAcceptRekber \/ SendAcceptance
    PROVE  LockTypes' /\ Traced' /\ Locks'
<1>0. "payer" \in Parties /\ "payee" \in Parties /\ "payer" # "payee"
      /\ "setup" \in Acts /\ "accept" \in Acts /\ ops' \subseteq Handler \union WorkHandler
  BY DEF Parties, Acts, IInv, TypeOK
<1>1. UNCHANGED <<custody, creates, accepts, releases, esc>>
  BY DEF handleStartRekber, SendSetup, handleAcceptRekber, SendAcceptance, pageVars, chainVars
<1>2. \A r \in prompts' \ prompts : r.kind \notin {"release", "fund"}
  <2>1. \A kind, k, arg : Ask(kind, k, arg) /\ kind \in {"create", "accept"} =>
            \A r \in prompts' \ prompts : r.kind \notin {"release", "fund"}
    BY DEF Ask
  <2>2. CASE handleStartRekber \/ handleAcceptRekber
    BY <2>2 DEF handleStartRekber, handleAcceptRekber
  <2>3. CASE SendSetup \/ SendAcceptance
    BY <2>1, <2>3 DEF SendSetup, SendAcceptance, sendEscrowCoordinationAction
  <2> QED
    BY <2>2, <2>3
<1>3. CASE handleStartRekber \/ SendSetup
  <2>1. PICK step, k, ver : Ready("payer") /\ creates = <<>> /\ Run("payer", "setup", step, k, ver)
    BY <1>3 DEF handleStartRekber, SendSetup
  <2>2. [who |-> "payer", act |-> "setup", step |-> step, k |-> k, ver |-> ver, at |-> "panel"] \in Handler \union WorkHandler
    BY <1>0, <2>1 DEF Run
  <2> QED
    BY <1>0, <1>1, <1>2, <2>1, <2>2, RunStep
<1>4. CASE handleAcceptRekber \/ SendAcceptance
  <2>1. PICK step, k, ver : MayAccept /\ k = custody["payee"] /\ Run("payee", "accept", step, k, ver)
    BY <1>4 DEF handleAcceptRekber, SendAcceptance, MaySave
  <2>2. [who |-> "payee", act |-> "accept", step |-> step, k |-> k, ver |-> ver, at |-> "panel"] \in Handler \union WorkHandler
    BY <1>0, <2>1 DEF Run
  <2>3. Ready("payee") /\ Created(k) /\ AcceptsOf(k) = {}
    BY <2>1 DEF MayAccept, Traced
  <2> QED
    BY <1>0, <1>1, <1>2, <2>1, <2>2, <2>3, RunStep
<1> QED
  BY <1>3, <1>4

LEMMA CallLocks ==
    ASSUME IInv, IInv', LockTypes, Traced, Locks,
           handleFund \/ handleAuthorizeRelease \/ handleClaimPayment \/ handleRefund
    PROVE  LockTypes' /\ Traced' /\ Locks'
<1>0. "payer" \in Parties /\ "payee" \in Parties /\ "payer" # "payee"
      /\ {"fund", "release", "claim", "refund"} \subseteq Acts /\ ops' \subseteq Handler \union WorkHandler
  BY DEF Parties, Acts, IInv, TypeOK
<1>1. UNCHANGED <<custody, creates, accepts, releases, esc>>
  BY DEF handleFund, handleAuthorizeRelease, handleClaimPayment, handleRefund, pageVars, chainVars
<1>2. \A c \in Parties : custody[c] # 0 => custody[c] \in Custodies
  BY DealAssumption DEF IInv, TypeOK, Custodies
<1>3. CASE handleFund
  <2>1. PICK r \in AcceptsOf(custody["payer"]) :
            Run("payer", "fund", "send", custody["payer"], r.ver) /\ depositEscrow(custody["payer"], r)
    BY <1>3 DEF handleFund
  <2>2. PICK k : k = custody["payer"]
    OBVIOUS
  <2>3. Ready("payer") /\ k # 0 /\ k = discoveredCreate /\ ~funded(k)
    BY <1>3, <2>2 DEF handleFund
  <2>4. Created(k) /\ k \in Custodies
    <3>1. k \in Custodies
      BY <1>0, <1>2, <2>2, <2>3
    <3>2. creates # <<>> /\ k = creates[Len(creates)] /\ creates \in Seq(Custodies)
      BY <2>3 DEF discoveredCreate, Last, IInv, TypeOK
    <3>3. Len(creates) \in DOMAIN creates
      BY <3>2
    <3> QED
      BY <3>1, <3>2, <3>3 DEF Created, ToSet
  <2>5. esc[k].st = "none"
    <3> SUFFICES ASSUME esc[k].st # "none" PROVE FALSE
      OBVIOUS
    <3>1. [k |-> k, ver |-> esc[k].ver] \in AcceptsOf(k)
      BY <2>4 DEF Traced, AcceptsOf, verifyRekberAcceptance
    <3> QED
      BY <2>3, <3>1 DEF funded, custodyVerification
  <2>6. [k |-> k, ver |-> r.ver] \in accepts
    BY <2>1, <2>2 DEF AcceptsOf, verifyRekberAcceptance, IInv, TypeOK
  <2>7. \A q \in prompts' \ prompts : q.k = k /\ q.arg = r.ver
    BY <2>1, <2>2 DEF depositEscrow, Ask
  <2>8. [who |-> "payer", act |-> "fund", step |-> "send", k |-> k, ver |-> r.ver, at |-> "panel"] \in Handler \union WorkHandler
    BY <1>0, <2>1, <2>2 DEF Run
  <2> QED
    BY <1>0, <1>1, <2>1, <2>2, <2>3, <2>4, <2>5, <2>6, <2>7, <2>8, RunStep
<1>4. CASE handleAuthorizeRelease
  <2>1. PICK k : k = custody["payer"]
    OBVIOUS
  <2>2. /\ Ready("payer") /\ k # 0 /\ esc[k].st = "confirmed" /\ k \notin releases
        /\ Run("payer", "release", "send", k, 0) /\ sendEscrowCoordinationAction("release", k, 0)
    BY <1>4, <2>1 DEF handleAuthorizeRelease, discoveredRelease
  <2>3. Created(k)
    BY <1>0, <1>2, <2>1, <2>2 DEF Traced
  <2>4. \A q \in prompts' \ prompts : q.k = k /\ q.kind = "release"
    BY <2>2 DEF sendEscrowCoordinationAction, Ask
  <2>5. [who |-> "payer", act |-> "release", step |-> "send", k |-> k, ver |-> 0, at |-> "panel"] \in Handler \union WorkHandler
    BY <1>0, <2>2 DEF Run
  <2> QED
    BY <1>0, <1>1, <2>2, <2>3, <2>4, <2>5, RunStep
<1>5. CASE handleClaimPayment
  <2>1. PICK k, ver : k = custody["payee"] /\ ver = mine["payee"]
    OBVIOUS
  <2>2. /\ Ready("payee") /\ k # 0 /\ esc[k].st # "released"
        /\ Run("payee", "claim", "send", k, ver) /\ releaseEscrow(k, ver)
    BY <1>5, <2>1 DEF handleClaimPayment, settled
  <2>3. Created(k)
    BY <2>1, <2>2 DEF Traced
  <2>4. \A q \in prompts' \ prompts : q.kind = "claim"
    BY <2>2 DEF releaseEscrow, Ask
  <2>5. [who |-> "payee", act |-> "claim", step |-> "send", k |-> k, ver |-> ver, at |-> "panel"] \in Handler \union WorkHandler
    BY <1>0, <2>2 DEF Run
  <2> QED
    BY <1>0, <1>1, <2>2, <2>3, <2>4, <2>5, RunStep
<1>6. CASE handleRefund
  <2>1. PICK k : k = custody["payer"]
    OBVIOUS
  <2>2. /\ Ready("payer") /\ k # 0 /\ esc[k].st = "funded"
        /\ Run("payer", "refund", "send", k, 0) /\ refundEscrow(k)
    BY <1>6, <2>1 DEF handleRefund
  <2>3. Created(k)
    BY <1>0, <1>2, <2>1, <2>2 DEF Traced
  <2>4. \A q \in prompts' \ prompts : q.kind = "refund"
    BY <2>2 DEF refundEscrow, Ask
  <2>5. [who |-> "payer", act |-> "refund", step |-> "send", k |-> k, ver |-> 0, at |-> "panel"] \in Handler \union WorkHandler
    BY <1>0, <2>2 DEF Run
  <2> QED
    BY <1>0, <1>1, <2>2, <2>3, <2>4, <2>5, RunStep
<1> QED
  BY <1>3, <1>4, <1>5, <1>6

\* A request that is approved: what was moot stays so, and a second setup ends
\* the promise.
LEMMA ApproveLocks ==
    ASSUME IInv, IInv', LockTypes, Traced, Locks, NEW p \in prompts, Approve(p)
    PROVE  LockTypes' /\ Traced' /\ Locks'
<1>1. UNCHANGED <<act, busy, crossed, ops>> /\ prompts' \subseteq prompts
  BY DEF Approve, lockVars
<1>2. p \in Request /\ creates \in Seq(Custodies) /\ esc \in [Custodies -> Record]
  BY DEF IInv, TypeOK
<1>3. /\ creates' \in {creates, Append(creates, p.k)} /\ accepts \subseteq accepts'
      /\ releases' \in {releases, releases \union {p.k}}
      /\ esc' = esc \/ (Custody(p) /\ esc' = [esc EXCEPT ![p.k] = After(p)])
  BY DEF Approve, StoreCreate, StoreAccept, StoreRelease, Custody
<1>4. \A i \in DOMAIN creates : i \in DOMAIN creates' /\ creates'[i] = creates[i]
  BY <1>2, <1>3 DEF Request
<1>5. \A k : Created(k) => Created(k)'
  BY <1>4 DEF Created, ToSet
<1>6. OneLifecycle' => OneLifecycle
  BY <1>4 DEF OneLifecycle
<1>7. \A k \in Custodies : /\ esc[k].st # "none" => esc'[k].st # "none" /\ esc'[k].ver = esc[k].ver
                           /\ esc[k].st \in {"released", "refunded"} => esc'[k].st = esc[k].st
                           /\ esc[k].st = "none" /\ esc'[k].st # "none" => p.kind = "fund" /\ k = p.k /\ esc'[k].ver = p.arg
  <2> SUFFICES ASSUME NEW k \in Custodies, k = p.k, Custody(p), esc' = [esc EXCEPT ![p.k] = After(p)]
               PROVE  /\ esc[k].st # "none" => esc'[k].st # "none" /\ esc'[k].ver = esc[k].ver
                      /\ esc[k].st \in {"released", "refunded"} => esc'[k].st = esc[k].st
                      /\ esc[k].st = "none" /\ esc'[k].st # "none" => p.kind = "fund" /\ k = p.k /\ esc'[k].ver = p.arg
    BY <1>2, <1>3
  <2>1. esc'[k] = After(p) /\ esc[k] \in Record /\ Accepted(p)
    BY <1>2 DEF Custody
  <2>2. p.kind \in {"fund", "submit", "confirm", "revise", "claim", "refund"}
    BY <2>1 DEF Accepted
  <2> QED
    BY <2>1, <2>2 DEF Accepted, After, Record, Empty, ReviewStarts
<1>8. creates # <<>> => creates' # <<>>
  BY <1>2, <1>3 DEF Request
<1>9. \A o \in ops : o.at = "panel" /\ Moot(o) => Moot(o)'
  <2> SUFFICES ASSUME NEW o \in ops, o.at = "panel", Moot(o) PROVE Moot(o)'
    OBVIOUS
  <2>1. o.act \in Acts /\ (o.act # "setup" => o.k \in Custodies)
    <3>1. o.act \in Acts
      BY Handlers DEF IInv
    <3> QED
      BY <1>2, <3>1 DEF Traced, Created, ToSet
  <2>2. AcceptsOf(o.k) \subseteq AcceptsOf(o.k)'
    BY <1>3 DEF AcceptsOf
  <2> QED
    BY <1>3, <1>7, <1>8, <2>1, <2>2 DEF Moot, Done, Acts
<1>10. Locks'
  BY <1>1, <1>6, <1>9, LocksStay
<1>11. LockTypes'
  BY <1>1 DEF LockTypes
<1>12. Traced'
  <2>1. (custody["payee"] # 0 => Created(custody["payee"]))'
    <3>1. CASE StoreCreate(p)
      <4>1. Created(p.k)'
        BY <1>2, <3>1 DEF StoreCreate, Created, ToSet, Request
      <4>2. custody'["payee"] \in {p.k, custody["payee"]}
        BY <3>1 DEF StoreCreate, Parties
      <4> QED
        BY <1>5, <4>1, <4>2 DEF Traced
    <3>2. CASE custody' = custody
      BY <1>5, <3>2 DEF Traced
    <3> QED
      BY <3>1, <3>2 DEF Approve, StoreAccept, StoreRelease, Custody
  <2>2. \A o \in ops' : o.act # "setup" => Created(o.k)'
    BY <1>1, <1>5 DEF Traced
  <2>3. \A q \in prompts' : /\ q.kind \in {"release", "fund"} => Created(q.k)'
                            /\ q.kind = "fund" => [k |-> q.k, ver |-> q.arg] \in accepts'
    BY <1>1, <1>3, <1>5 DEF Traced
  <2>4. \A k \in releases' : Created(k)'
    <3>1. releases' = releases \/ (p.kind = "release" /\ releases' = releases \union {p.k})
      BY DEF Approve, StoreCreate, StoreAccept, StoreRelease, Custody
    <3>2. p.kind = "release" => Created(p.k)
      BY DEF Traced
    <3> QED
      BY <1>5, <3>1, <3>2 DEF Traced
  <2>5. \A k \in Custodies : esc'[k].st # "none" => Created(k)' /\ [k |-> k, ver |-> esc'[k].ver] \in accepts'
    BY <1>3, <1>5, <1>7 DEF Traced
  <2> QED
    BY <2>1, <2>2, <2>3, <2>4, <2>5 DEF Traced
<1> QED
  BY <1>10, <1>11, <1>12

LEMMA QuietLocks ==
    ASSUME IInv, LockTypes, Traced, Locks,
           \/ \E c \in Parties : Open(c) \/ LoadSecrets(c)
           \/ \E k \in Custodies : Deadline(k)
           \/ \E p \in prompts : Decline(p)
           \/ UNCHANGED vars
    PROVE  LockTypes' /\ Traced' /\ Locks'
<1>1. UNCHANGED <<act, busy, crossed, ops, creates, accepts, releases, esc>>
  BY DEF Open, LoadSecrets, Deadline, Decline, vars, lockVars, chainVars
<1>2. LockTypes' /\ Locks'
  BY <1>1, MootSame, LocksStay DEF LockTypes
<1>3. Traced'
  <2>1. CASE \E c \in Parties : Open(c) \/ LoadSecrets(c)
    BY <2>1, PanelTraced
  <2>2. CASE \/ \E k \in Custodies : Deadline(k)
             \/ \E p \in prompts : Decline(p)
             \/ UNCHANGED vars
    <3>1. UNCHANGED custody /\ prompts' \subseteq prompts
      BY <2>2 DEF Deadline, Decline, vars, pageVars
    <3> QED
      BY <1>1, <3>1, TracedStays
  <2> QED
    BY <2>1, <2>2
<1> QED
  BY <1>2, <1>3

\* What a work handler has to do with the locks: it takes the flag without
\* looking, which is remembered, and gives it back.
LEMMA WorkLocks ==
    ASSUME IInv, LockTypes, Locks,
           \/ \E k \in Custodies : sendDirectWorkSubmission(k) \/ sendDirectWorkReview(k)
           \/ \E o \in ops : SubmitsWork(o) \/ ReviewsWork(o) \/ WorkEnds(o)
    PROVE  LockTypes' /\ Locks'
<1>0. UNCHANGED <<act, creates, accepts, releases, esc>>
  BY DEF sendDirectWorkSubmission, sendDirectWorkReview, Tap, SubmitsWork, ReviewsWork, TakesBusy, WorkEnds, chainVars
<1>1. (OneLifecycle' <=> OneLifecycle) /\ \A q : Moot(q)' <=> Moot(q)
  BY <1>0, MootSame
<1>2. ASSUME NEW o \in ops', o \notin WorkHandler PROVE o \in ops
  BY <1>2, WorkShape
<1>3. CASE \E k \in Custodies : sendDirectWorkSubmission(k) \/ sendDirectWorkReview(k)
  <2>1. PICK h : h.at = "chat" /\ h.step = "key" /\ ops' = ops \union {h}
    BY <1>3 DEF sendDirectWorkSubmission, sendDirectWorkReview, Tap
  <2>2. UNCHANGED <<busy, crossed>>
    BY <1>3 DEF sendDirectWorkSubmission, sendDirectWorkReview, Tap
  <2>3. \A c : OnPanel(c)' = OnPanel(c) /\ Working(c)' = Working(c)
    BY <2>1 DEF OnPanel, Working
  <2>4. \A q \in ops' : q.at # "chat" => q \in ops
    BY <2>1
  <2>5. Locks'
    <3> SUFFICES ASSUME OneLifecycle', NEW c \in Parties, ~crossed'[c] PROVE Exclusive(c)' /\ Alone(c)'
      BY DEF Locks
    <3>1. Exclusive(c) /\ Alone(c)
      BY <1>1, <2>2 DEF Locks
    <3> QED
      BY <1>0, <1>1, <2>2, <2>3, <2>4, <3>1 DEF Exclusive, Alone
  <2> QED
    BY <1>0, <1>2, <2>2, <2>5 DEF LockTypes
<1>4. CASE \E o \in ops : SubmitsWork(o) \/ ReviewsWork(o)
  <2>1. PICK o \in ops : SubmitsWork(o) \/ ReviewsWork(o)
    BY <1>4
  <2>2. TakesBusy(o) /\ o \in WorkHandler /\ o.who \in Parties /\ o.at = "chat" /\ o.step = "key"
    BY <2>1, WorkShape DEF SubmitsWork, ReviewsWork, TakesBusy, WorkHandler
  <2>3. PICK h \in WorkHandler : h.who = o.who /\ h.step = "send" /\ ops' = (ops \ {o}) \union {h}
    BY <2>2, WorkShape
  <2>4. /\ h.at = "chat" /\ busy' = [busy EXCEPT ![o.who] = TRUE]
        /\ crossed' = [crossed EXCEPT ![o.who] = crossed[o.who] \/ busy[o.who]]
    BY <2>2 DEF TakesBusy, WorkHandler
  <2>5. busy' \in [Parties -> BOOLEAN] /\ crossed' \in [Parties -> BOOLEAN]
    BY <2>2, <2>4, Zenon DEF LockTypes
  <2>6. \A c : /\ OnPanel(c)' = OnPanel(c)
               /\ Working(c)' = IF c = o.who THEN Working(c) \union {h} ELSE Working(c)
    BY <2>2, <2>3, <2>4 DEF OnPanel, Working
  <2>7. \A q \in ops' : q.at # "chat" => q \in ops
    BY <2>3, <2>4
  <2>8. Locks'
    <3> SUFFICES ASSUME OneLifecycle', NEW c \in Parties, ~crossed'[c] PROVE Exclusive(c)' /\ Alone(c)'
      BY DEF Locks
    <3>1. Exclusive(c) /\ Alone(c)
      BY <1>1, <2>2, <2>4 DEF Locks, LockTypes
    <3>2. CASE c # o.who
      <4>1. busy'[c] = busy[c] /\ act'[c] = act[c]
        BY <1>0, <2>4, <3>2 DEF LockTypes
      <4> QED
        BY <1>1, <2>6, <2>7, <3>1, <3>2, <4>1 DEF Exclusive, Alone
    <3>3. CASE c = o.who
      <4>1. ~busy[c] /\ busy'[c] /\ act'[c] = act[c]
        BY <1>0, <2>4, <3>3 DEF LockTypes
      <4>2. act[c] = "none" /\ Working(c) = {} /\ \A q \in ops : q.who = c => q.at # "holds"
        BY <3>1, <4>1 DEF Exclusive, Alone
      <4>3. Working(c)' = {h} /\ \A q \in ops' : q.who = c => q.at # "holds"
        BY <2>6, <2>7, <3>3, <4>2
      <4> QED
        BY <1>1, <2>6, <3>1, <4>1, <4>2, <4>3 DEF Exclusive, Alone
    <3> QED
      BY <3>2, <3>3
  <2> QED
    BY <1>0, <1>2, <2>5, <2>8 DEF LockTypes
<1>5. CASE \E o \in ops : WorkEnds(o)
  <2>1. PICK o \in ops : WorkEnds(o)
    BY <1>5
  <2>2. /\ o.at = "chat" /\ o.step = "send" /\ o.who \in Parties /\ ops' = ops \ {o}
        /\ busy' = [busy EXCEPT ![o.who] = FALSE] /\ crossed' = crossed
    BY <2>1, Handlers DEF WorkEnds, IInv
  <2>3. busy' \in [Parties -> BOOLEAN]
    BY <2>2, Zenon DEF LockTypes
  <2>4. \A c : /\ OnPanel(c)' = OnPanel(c)
               /\ Working(c)' = Working(c) \ {o}
    BY <2>2 DEF OnPanel, Working
  <2>5. Locks'
    <3> SUFFICES ASSUME OneLifecycle', NEW c \in Parties, ~crossed'[c] PROVE Exclusive(c)' /\ Alone(c)'
      BY DEF Locks
    <3>1. Exclusive(c) /\ Alone(c)
      BY <1>1, <2>2 DEF Locks
    <3>2. CASE c # o.who
      <4>1. busy'[c] = busy[c] /\ act'[c] = act[c] /\ Working(c)' = Working(c)
        BY <1>0, <2>2, <2>4, <3>2 DEF LockTypes, Working
      <4> QED
        BY <1>1, <2>2, <2>4, <3>1, <3>2, <4>1 DEF Exclusive, Alone
    <3>3. CASE c = o.who
      <4>1. o \in Working(c)
        BY <2>2, <3>3 DEF Working
      <4>2. act[c] = "none" /\ Working(c) = {o} /\ \A q \in ops : q.who = c => q.at # "holds"
        BY <3>1, <4>1 DEF Alone
      <4>3. Working(c)' = {} /\ act'[c] = "none"
        BY <1>0, <2>4, <4>2
      <4> QED
        BY <1>1, <2>2, <2>4, <3>1, <4>2, <4>3 DEF Exclusive, Alone
    <3> QED
      BY <3>2, <3>3
  <2> QED
    BY <1>0, <1>2, <2>2, <2>3, <2>5 DEF LockTypes
<1> QED
  BY <1>3, <1>4, <1>5

LEMMA WorkTraced ==
    ASSUME IInv, Traced,
           \/ \E k \in Custodies : sendDirectWorkSubmission(k) \/ sendDirectWorkReview(k)
           \/ \E o \in ops : SubmitsWork(o) \/ ReviewsWork(o) \/ WorkEnds(o)
    PROVE  Traced'
<1>0. UNCHANGED <<custody, creates, accepts, releases, esc>>
  BY DEF sendDirectWorkSubmission, sendDirectWorkReview, Tap, SubmitsWork, ReviewsWork, TakesBusy, WorkEnds,
         chainVars, pageVars
<1>1. \A r \in prompts' \ prompts : r.kind \notin {"release", "fund"}
  <2>1. \A kind, k, arg : Ask(kind, k, arg) => \A r \in prompts' \ prompts : r.kind = kind
    BY DEF Ask
  <2>2. CASE UNCHANGED prompts
    BY <2>2
  <2>3. CASE \E o \in ops : SubmitsWork(o) \/ ReviewsWork(o)
    BY <2>1, <2>3 DEF SubmitsWork, ReviewsWork, ApproveWork, RequestRevision, submitRekberFulfillment,
                      confirmRekberFulfillment, requestRekberRevision, invokeRekberWorkflowAction
  <2> QED
    BY <2>2, <2>3 DEF sendDirectWorkSubmission, sendDirectWorkReview, Tap, WorkEnds
<1>2. \A o \in ops' : o.act # "setup" => Created(o.k)
  <2>1. CASE \E k \in Custodies : sendDirectWorkSubmission(k) \/ sendDirectWorkReview(k)
    <3>1. PICK k \in Custodies : sendDirectWorkSubmission(k) \/ sendDirectWorkReview(k)
      BY <2>1
    <3>2. PICK h : h.k = k /\ esc[k].st # "none" /\ ops' = ops \union {h}
      BY <3>1 DEF sendDirectWorkSubmission, sendDirectWorkReview, Tap, fundedDealEntry
    <3> QED
      BY <3>2 DEF Traced
  <2>2. CASE \E o \in ops : SubmitsWork(o) \/ ReviewsWork(o)
    <3>1. PICK o \in ops : SubmitsWork(o) \/ ReviewsWork(o)
      BY <2>2
    <3>2. TakesBusy(o) /\ o \in WorkHandler /\ o.act # "setup"
      BY <3>1, WorkShape DEF SubmitsWork, ReviewsWork
    <3>3. PICK h : h.k = o.k /\ ops' = (ops \ {o}) \union {h}
      BY <3>2, WorkShape
    <3> QED
      BY <3>2, <3>3 DEF Traced
  <2>3. CASE \E o \in ops : WorkEnds(o)
    BY <2>3 DEF WorkEnds, Traced
  <2> QED
    BY <2>1, <2>2, <2>3
<1> QED
  BY <1>0, <1>1, <1>2 DEF Traced, Created

THEOREM LockInvariance == Spec => [](LockTypes /\ Traced /\ Locks)
<1>1. Init => LockTypes /\ Traced /\ Locks
  BY InitLocks
<1>2. IInv /\ IInv' /\ (LockTypes /\ Traced /\ Locks) /\ [Next]_vars => (LockTypes /\ Traced /\ Locks)'
  <2> SUFFICES ASSUME IInv, IInv', LockTypes, Traced, Locks, [Next]_vars PROVE LockTypes' /\ Traced' /\ Locks'
    OBVIOUS
  <2>1. CASE \E c \in Parties : Close(c) \/ Reload(c) \/ ReleaseLock(c)
    BY <2>1, PanelLocks, PanelTraced
  <2>2. CASE \E o \in ops : SetupSigned(o) \/ AcceptSigned(o) \/ Succeeds(o) \/ Fails(o)
    BY <2>2, HandlerTraced, LockReturned
  <2>3. CASE Taps /\ ~\E k \in Custodies : sendDirectWorkSubmission(k) \/ sendDirectWorkReview(k)
    BY <2>3, SignLocks, CallLocks DEF Taps
  <2>4. CASE \E p \in prompts : Approve(p)
    BY <2>4, ApproveLocks
  <2>5. CASE \/ \E c \in Parties : Open(c) \/ LoadSecrets(c)
             \/ \E k \in Custodies : Deadline(k)
             \/ \E p \in prompts : Decline(p)
             \/ UNCHANGED vars
    BY <2>5, QuietLocks
  <2>6. CASE \/ \E k \in Custodies : sendDirectWorkSubmission(k) \/ sendDirectWorkReview(k)
             \/ \E o \in ops : SubmitsWork(o) \/ ReviewsWork(o) \/ WorkEnds(o)
    BY <2>6, WorkLocks, WorkTraced
  <2> QED
    BY <2>1, <2>2, <2>3, <2>4, <2>5, <2>6 DEF Next, Taps
<1> QED
  BY <1>1, <1>2, Invariance, PTL DEF Spec

\* While the offer has one lifecycle on chain, and no work handler of the chat
\* took the page from a Rekber action, a handler whose purpose is not there yet
\* keeps its lock, one whose panel was closed keeps the page, and so does a work
\* handler: no late callback of an older action unlocks a newer one.
THEOREM LocksAreHeld == Spec => []LockHeld
<1>1. IInv /\ LockTypes /\ Locks => LockHeld
  <2> SUFFICES ASSUME IInv, Locks, OneLifecycle, NEW o \in ops, ~crossed[o.who]
               PROVE  /\ o.at = "panel" /\ ~Moot(o) => act[o.who] = o.act /\ busy[o.who]
                      /\ o.at = "holds" \/ (o.at = "chat" /\ o.step = "send") => busy[o.who]
    BY DEF LockHeld
  <2>1. o.who \in Parties /\ o.act # "none"
    BY Handlers DEF IInv
  <2>2. Exclusive(o.who) /\ Alone(o.who)
    BY <2>1 DEF Locks
  <2> QED
    BY <2>1, <2>2 DEF Exclusive, OnPanel, Alone, Working
<1> QED
  BY <1>1, Invariance, LockInvariance, PTL
=============================================================================
