------------------------- MODULE ClientRequestProofs -------------------------
(***************************************************************************)
(* Proofs about module ClientRequest: for all sizes, deadlines and heads,  *)
(* only whole and authentic requests act, a client holds its thread for a  *)
(* bounded time, and nothing is left of the answer's file.                 *)
(***************************************************************************)
EXTENDS ClientRequest, TLAPS

Inv == TypeOK /\ Safety

Codes == {200, 400, 403, 404, 405, 408, 413, 500, 501}

LEMMA Numbers ==
    /\ MaxHeader \in Nat \ {0} /\ MaxBody \in Nat /\ Buffer \in Nat \ {0}
    /\ MaxAnswer \in Nat \ {0} /\ Wait \in Nat \ {0} /\ Deadline \in Nat \ {0}
    /\ SendLimit \subseteq Nat \ {0} /\ Horizon \in Nat /\ Horizon >= Deadline + Wait
    /\ \A s \in SendLimit : Horizon >= s + Wait
BY SizeAssumption, TimeAssumption

LEMMA HeadFields ==
    ASSUME NEW h \in Head \union {NoHead}
    PROVE  /\ h.length \in Int /\ h.method \in {"GET", "POST", "PUT"}
           /\ h.target \in {"page", "form", "view", "command", "unknown"}
           /\ h.line \in BOOLEAN /\ h.host \in BOOLEAN /\ h.cross \in BOOLEAN /\ h.csrf \in BOOLEAN
<1>1. CASE h \in Head
  BY <1>1, HeadAssumption
<1>2. CASE h = NoHead
  BY <1>2 DEF NoHead
<1> QED BY <1>1, <1>2

(* Every refusal has one of the codes, and an accepted head is authentic.  *)
LEMMA Verdicts ==
    ASSUME NEW h
    PROVE  /\ Verdict(h) # 0 => Verdict(h) \in Codes
           /\ Verdict(h) = 0 => h.host /\ (h.method = "POST" => ~h.cross)
BY DEF Verdict, Codes

-----------------------------------------------------------------------------
(* How the clocks, the file and the answer stand once an answer is begun.  *)
Answered(code) ==
    /\ pc' = "send" /\ status' = code /\ now' = 0 /\ waited' = 0
    /\ left' \in 1..MaxAnswer /\ due' \in SendLimit

LEMMA RefuseAnswers ==
    ASSUME NEW code, Refuse(code)
    PROVE  Answered(code) /\ file' = NoFile
BY Numbers DEF Refuse, Answer, Answered

(* The step that begins an answer keeps the invariant, whatever the rest   *)
(* of the request is, if what was done was authentic.                      *)
LEMMA AnswerSafe ==
    ASSUME Inv, NEW code \in Codes, Answered(code),
           input' \in Nat, end' \in 0..input', head' \in Head \union {NoHead},
           gone' \in BOOLEAN, acted' \in BOOLEAN,
           file' \in [kind : {"none", "kept", "temporary"}, open : BOOLEAN],
           ActsAreAuthentic'
    PROVE  Inv'
<1>1. TypeOK'
  <2>1. due' \in SendLimit \union {Deadline} /\ left' \in 0..MaxAnswer
        /\ now' \in 0..Horizon /\ waited' \in 0..Wait
    BY Numbers DEF Answered
  <2>2. status' \in {0, 200, 400, 403, 404, 405, 408, 413, 500, 501} /\ pc' = "send"
    BY DEF Answered, Codes
  <2> QED BY <2>1, <2>2 DEF TypeOK
<1>2. status' # 0 /\ due' \in Nat \ {0} /\ now' = 0 /\ waited' = 0 /\ pc' = "send"
  BY Numbers DEF Answered, Codes
<1>3. ThreadIsFreed' /\ Places'
  <2>1. now' < due' + Wait /\ now' < due' + waited'
    <3>1. PICK d \in SendLimit : due' = d
      BY DEF Answered
    <3>2. 0 < d + Wait /\ 0 < d + 0
      BY Numbers
    <3> QED BY <1>2, <3>1, <3>2
  <2>2. ThreadIsFreed'
    BY <1>2, <2>1 DEF ThreadIsFreed
  <2>3. Places'
    BY <1>2, <2>1 DEF Places
  <2> QED BY <2>2, <2>3
<1>4. HandlerSeesAll' /\ FileIsReleased' /\ SilenceIsDeserved'
  BY <1>2 DEF HandlerSeesAll, FileIsReleased, SilenceIsDeserved
<1> QED BY <1>1, <1>3, <1>4 DEF Inv, Safety

(* A refusal while nothing has been done.                                  *)
LEMMA RefuseSafe ==
    ASSUME Inv, ~acted, UNCHANGED <<gone, acted>>, NEW code \in Codes, Refuse(code),
           input' \in Nat, end' \in 0..input', head' \in Head \union {NoHead}
    PROVE  Inv'
<1>1. Answered(code) /\ file' = NoFile
  BY RefuseAnswers
<1>2. gone' \in BOOLEAN /\ acted' \in BOOLEAN /\ ~acted'
  BY DEF Inv, TypeOK
<1>3. file' \in [kind : {"none", "kept", "temporary"}, open : BOOLEAN]
  BY <1>1 DEF NoFile
<1>4. ActsAreAuthentic'
  BY <1>2 DEF ActsAreAuthentic
<1> QED BY <1>1, <1>2, <1>3, <1>4, AnswerSafe

(* The same for reading on.                                                *)
LEMMA MoreBodySafe ==
    ASSUME Inv, pc \in {"head", "body"}, NEW got \in Int, NEW h \in Head \union {NoHead}, Verdict(h) = 0,
           MoreBody(got, h), UNCHANGED <<gone, acted>>,
           input' \in Nat, end' \in 0..input', head' = h, got = input' - end'
    PROVE  Inv'
<1>1. ~acted /\ file = NoFile /\ now < due + waited /\ due = Deadline
  BY DEF Inv, Safety, Places
<1>2. h.length \in Int /\ head' \in Head \union {NoHead}
  BY HeadFields
<1>3. /\ now \in 0..Horizon /\ waited \in 0..Wait /\ gone \in BOOLEAN
      /\ acted \in BOOLEAN /\ left \in 0..MaxAnswer /\ due \in SendLimit \union {Deadline}
      /\ status \in {0, 200, 400, 403, 404, 405, 408, 413, 500, 501}
      /\ file \in [kind : {"none", "kept", "temporary"}, open : BOOLEAN]
  BY DEF Inv, TypeOK
<1>4. CASE Refuse(408)
  BY <1>1, <1>2, <1>4, RefuseSafe DEF Codes
<1>5. CASE Refuse(400)
  BY <1>1, <1>2, <1>5, RefuseSafe DEF Codes
<1>6. CASE got < h.length /\ now < due /\ pc' = "body" /\ waited' = 0
           /\ UNCHANGED now /\ KeepAnswer
  <2>1. UNCHANGED <<status, left, due, file, now>> /\ pc' = "body" /\ waited' = 0
    BY <1>6 DEF KeepAnswer
  <2>2. TypeOK'
    <3>1. waited' \in 0..Wait /\ gone' \in BOOLEAN /\ acted' \in BOOLEAN
      BY <1>1, <1>3, <2>1, Numbers
    <3> QED BY <1>1, <1>2, <1>3, <2>1, <3>1 DEF TypeOK
  <2>3. Places' /\ ThreadIsFreed'
    BY <1>1, <1>3, <1>6, <2>1, Numbers DEF Places, ThreadIsFreed
  <2>4. HandlerSeesAll' /\ FileIsReleased' /\ SilenceIsDeserved' /\ ActsAreAuthentic'
    BY <1>1, <2>1 DEF HandlerSeesAll, FileIsReleased, SilenceIsDeserved, ActsAreAuthentic
  <2> QED BY <2>2, <2>3, <2>4 DEF Inv, Safety
<1>7. CASE got = h.length /\ pc' = "handle" /\ UNCHANGED <<now, waited>> /\ KeepAnswer
  <2>1. UNCHANGED <<status, left, due, file, now, waited>> /\ pc' = "handle"
    BY <1>7 DEF KeepAnswer
  <2>2. TypeOK'
    <3>1. waited' \in 0..Wait /\ gone' \in BOOLEAN /\ acted' \in BOOLEAN
      BY <1>1, <1>3, <2>1, Numbers
    <3> QED BY <1>1, <1>2, <1>3, <2>1, <3>1 DEF TypeOK
  <2>3. Places' /\ ThreadIsFreed'
    BY <1>1, <1>3, <2>1, Numbers DEF Places, ThreadIsFreed
  <2>4. HandlerSeesAll'
    BY <1>7, <2>1 DEF HandlerSeesAll
  <2>5. FileIsReleased' /\ SilenceIsDeserved' /\ ActsAreAuthentic'
    BY <1>1, <2>1 DEF FileIsReleased, SilenceIsDeserved, ActsAreAuthentic
  <2> QED BY <2>2, <2>3, <2>4, <2>5 DEF Inv, Safety
<1> QED
  <2>1. now \in Int /\ due \in Int
    BY <1>1, <1>3, Numbers
  <2> QED BY <1>2, <1>4, <1>5, <1>6, <1>7, <2>1 DEF MoreBody

-----------------------------------------------------------------------------
(* One lemma per action.                                                   *)

LEMMA RecvHeadSafe == ASSUME Inv, NEW n \in 1..Buffer, RecvHead(n) PROVE Inv'
<1>1. /\ ~acted /\ file = NoFile /\ now < due + waited /\ due = Deadline /\ end = 0
      /\ pc = "head"
  BY DEF Inv, Safety, Places, RecvHead
<1>2. /\ now \in 0..Horizon /\ waited \in 0..Wait /\ gone \in BOOLEAN
      /\ input \in Nat /\ head \in Head \union {NoHead} /\ acted \in BOOLEAN
      /\ left \in 0..MaxAnswer /\ due \in SendLimit \union {Deadline}
      /\ status \in {0, 200, 400, 403, 404, 405, 408, 413, 500, 501}
      /\ file \in [kind : {"none", "kept", "temporary"}, open : BOOLEAN]
  BY DEF Inv, TypeOK
<1>3. /\ UNCHANGED <<end, head, gone, acted>>
      /\ input' = input + n /\ input' \in Nat /\ end' \in 0..input'
      /\ head' \in Head \union {NoHead}
  BY <1>1, <1>2, Numbers DEF RecvHead
<1>4. CASE Refuse(413)
  BY <1>1, <1>3, <1>4, RefuseSafe DEF Codes
<1>5. CASE Refuse(408)
  BY <1>1, <1>3, <1>5, RefuseSafe DEF Codes
<1>6. CASE now < due /\ waited' = 0 /\ UNCHANGED <<pc, now>> /\ KeepAnswer
  <2>1. UNCHANGED <<status, left, due, file, now>> /\ pc' = "head" /\ waited' = 0
    BY <1>1, <1>6 DEF KeepAnswer
  <2>2. TypeOK'
    <3>1. waited' \in 0..Wait /\ gone' \in BOOLEAN /\ acted' \in BOOLEAN
      BY <1>1, <1>2, <1>3, <2>1, Numbers
    <3> QED BY <1>1, <1>2, <1>3, <2>1, <3>1 DEF TypeOK
  <2>3. Places' /\ ThreadIsFreed'
    BY <1>1, <1>2, <1>3, <1>6, <2>1, Numbers DEF Places, ThreadIsFreed
  <2>4. HandlerSeesAll' /\ FileIsReleased' /\ SilenceIsDeserved' /\ ActsAreAuthentic'
    BY <1>1, <1>3, <2>1 DEF HandlerSeesAll, FileIsReleased, SilenceIsDeserved, ActsAreAuthentic
  <2> QED BY <2>2, <2>3, <2>4 DEF Inv, Safety
<1>7. now \in Int /\ due \in Int
  BY <1>1, <1>2, Numbers
<1> QED BY <1>4, <1>5, <1>6, <1>7 DEF RecvHead

LEMMA RecvEndSafe == ASSUME Inv, NEW n \in 1..Buffer, RecvEnd(n) PROVE Inv'
<1>1. pc = "head" /\ input' = input + n /\ UNCHANGED <<gone, acted>>
  BY DEF RecvEnd
<1>2. ~acted /\ input \in Nat
  BY <1>1 DEF Inv, Safety, Places, TypeOK
<1>3. PICK e \in (input + 1)..(input + n), h \in Head :
          /\ end' = e /\ head' = h
          /\ IF Verdict(h) # 0 THEN Refuse(Verdict(h)) ELSE MoreBody(input + n - e, h)
  BY DEF RecvEnd
<1>4. input' \in Nat /\ end' \in 0..input' /\ head' \in Head \union {NoHead}
      /\ input + n - e = input' - end' /\ input + n - e \in Int
  BY <1>1, <1>2, <1>3, Numbers
<1>5. CASE Verdict(h) # 0
  <2>1. Verdict(h) \in Codes /\ Refuse(Verdict(h))
    BY <1>3, <1>5, Verdicts
  <2> QED BY <1>1, <1>2, <1>4, <2>1, RefuseSafe
<1>6. CASE Verdict(h) = 0
  <2>1. MoreBody(input + n - e, h)
    BY <1>3, <1>6
  <2>2. h \in Head \union {NoHead} /\ head' = h
    BY <1>3
  <2> QED BY <1>1, <1>4, <1>6, <2>1, <2>2, MoreBodySafe
<1> QED BY <1>5, <1>6

LEMMA RecvBodySafe == ASSUME Inv, NEW n \in 1..Buffer, RecvBody(n) PROVE Inv'
<1>1. /\ pc = "body" /\ input' = input + n /\ UNCHANGED <<end, head, gone, acted>>
      /\ MoreBody(input + n - end, head)
  BY DEF RecvBody
<1>2. input \in Nat /\ end \in 0..input /\ head \in Head \union {NoHead} /\ Verdict(head) = 0
  BY <1>1 DEF Inv, Safety, Places, TypeOK
<1>3. input' \in Nat /\ end' \in 0..input' /\ input + n - end \in Int
      /\ input + n - end = input' - end'
  BY <1>1, <1>2, Numbers
<1> QED BY <1>1, <1>2, <1>3, MoreBodySafe

LEMMA RecvFailsSafe == ASSUME Inv, RecvFails PROVE Inv'
<1>1. UNCHANGED <<input, end, head, acted, gone>> /\ (gone \/ waited = Wait)
      /\ pc \in {"head", "body"}
  BY DEF RecvFails, request
<1>2. /\ ~acted /\ input \in Nat /\ end \in 0..input /\ head \in Head \union {NoHead}
  BY <1>1 DEF Inv, Safety, Places, TypeOK
<1>3. CASE Refuse(400)
  BY <1>1, <1>2, <1>3, RefuseSafe DEF Codes
<1>4. CASE pc = "head" /\ pc' = "done" /\ UNCHANGED <<now, waited>> /\ KeepAnswer
  <2>1. UNCHANGED <<status, left, due, file, now, waited>> /\ pc' = "done"
    BY <1>4 DEF KeepAnswer
  <2>2. TypeOK'
    BY <1>1, <2>1 DEF Inv, TypeOK
  <2>3. end = 0 /\ file = NoFile
    BY <1>4 DEF Inv, Safety, Places
  <2>4. Places' /\ ThreadIsFreed' /\ HandlerSeesAll'
    BY <2>1 DEF Places, ThreadIsFreed, HandlerSeesAll
  <2>5. FileIsReleased' /\ SilenceIsDeserved' /\ ActsAreAuthentic'
    BY <1>1, <1>2, <2>1, <2>3 DEF FileIsReleased, SilenceIsDeserved, ActsAreAuthentic
  <2> QED BY <2>2, <2>4, <2>5 DEF Inv, Safety
<1> QED BY <1>3, <1>4 DEF RecvFails

(* What the application did is authentic, because its head was accepted.   *)
LEMMA HandleSafe == ASSUME Inv, Handle PROVE Inv'
<1>1. /\ pc = "handle" /\ UNCHANGED <<input, end, head, gone>>
      /\ acted' = (Allowed(head) /\ Acts(head))
  BY DEF Handle
<1>2. /\ input \in Nat /\ end \in 0..input /\ head \in Head \union {NoHead} /\ gone \in BOOLEAN
      /\ Verdict(head) = 0 /\ input - end = head.length
  BY <1>1 DEF Inv, Safety, HandlerSeesAll, TypeOK
<1>3. /\ input' \in Nat /\ end' \in 0..input' /\ head' \in Head \union {NoHead}
      /\ gone' \in BOOLEAN
  BY <1>1, <1>2
<1>4. acted' \in BOOLEAN
  BY <1>1
<1>5. ActsAreAuthentic'
  <2>1. head.host /\ (head.method = "POST" => ~head.cross)
    BY <1>2, Verdicts
  <2> QED BY <1>1, <1>2, <2>1 DEF ActsAreAuthentic, Allowed, Acts
<1>6. \E code \in Codes : Answered(code)
         /\ file' \in [kind : {"none", "kept", "temporary"}, open : BOOLEAN]
  <2>1. PICK s \in SendLimit, size \in 1..MaxAnswer :
          \/ ~Allowed(head) /\ Answer(400, NoFile, 1, s)
          \/ Allowed(head) /\ Answer(Routed(head), NoFile, size, s)
          \/ Allowed(head) /\ Answer(500, NoFile, 1, s)
          \/ /\ Allowed(head) /\ Routed(head) = 200
             /\ \E k \in {"kept", "temporary"} :
                   OpenFile([kind |-> k, open |-> FALSE], 200, size, s)
    BY DEF Handle
  <2>2. ASSUME NEW code \in Codes, NEW units \in 1..MaxAnswer,
               NEW f \in [kind : {"none", "kept", "temporary"}, open : BOOLEAN],
               Answer(code, f, units, s)
        PROVE  Answered(code) /\ file' \in [kind : {"none", "kept", "temporary"}, open : BOOLEAN]
    BY <2>2 DEF Answer, Answered
  <2>3. 1 \in 1..MaxAnswer
        /\ NoFile \in [kind : {"none", "kept", "temporary"}, open : BOOLEAN]
    BY Numbers DEF NoFile
  <2>4. CASE Answer(400, NoFile, 1, s)
    <3>1. 400 \in Codes
      BY DEF Codes
    <3> QED BY <2>2, <2>3, <2>4, <3>1
  <2>5. CASE Answer(Routed(head), NoFile, size, s)
    <3>1. Routed(head) \in Codes
      BY DEF Codes, Routed
    <3> QED BY <2>2, <2>3, <2>5, <3>1
  <2>6. CASE Answer(500, NoFile, 1, s)
    <3>1. 500 \in Codes
      BY DEF Codes
    <3> QED BY <2>2, <2>3, <2>6, <3>1
  <2>7. ASSUME NEW k \in {"kept", "temporary"},
               OpenFile([kind |-> k, open |-> FALSE], 200, size, s)
        PROVE  \E code \in Codes : Answered(code)
                 /\ file' \in [kind : {"none", "kept", "temporary"}, open : BOOLEAN]
    <3> DEFINE f == [kind |-> k, open |-> FALSE]
               g == [f EXCEPT !.open = TRUE]
    <3>1. /\ f \in [kind : {"none", "kept", "temporary"}, open : BOOLEAN]
          /\ g \in [kind : {"none", "kept", "temporary"}, open : BOOLEAN]
      OBVIOUS
    <3>2. 200 \in Codes /\ 500 \in Codes
      BY DEF Codes
    <3>3. Answer(200, g, size, s) \/ Answer(500, f, 1, s)
      BY <2>7 DEF OpenFile
    <3> HIDE DEF f, g
    <3> QED BY <2>2, <2>3, <3>1, <3>2, <3>3
  <2> QED BY <2>1, <2>4, <2>5, <2>6, <2>7
<1>7. PICK code \in Codes : Answered(code)
         /\ file' \in [kind : {"none", "kept", "temporary"}, open : BOOLEAN]
  BY <1>6
<1> QED BY <1>3, <1>4, <1>5, <1>7, AnswerSafe

(* The end of the answer.                                                  *)
LEMMA CloseSafe ==
    ASSUME Inv, pc = "send", Close, UNCHANGED <<input, end, head, acted, gone, status, due, now, waited>>,
           left' \in 0..MaxAnswer
    PROVE  Inv'
<1>1. pc' = "done" /\ file' = NoFile /\ status' # 0
  BY DEF Close, Inv, Safety, Places
<1>2. file' \in [kind : {"none", "kept", "temporary"}, open : BOOLEAN]
  BY <1>1 DEF NoFile
<1>3. TypeOK'
  BY <1>1, <1>2 DEF Inv, TypeOK
<1>4. Places' /\ ThreadIsFreed' /\ HandlerSeesAll' /\ FileIsReleased' /\ SilenceIsDeserved'
  BY <1>1 DEF Places, ThreadIsFreed, HandlerSeesAll, FileIsReleased, SilenceIsDeserved
<1>5. ActsAreAuthentic'
  BY DEF Inv, Safety, ActsAreAuthentic
<1> QED BY <1>3, <1>4, <1>5 DEF Inv, Safety

LEMMA SendSomeSafe == ASSUME Inv, NEW n \in 1..Buffer, SendSome(n) PROVE Inv'
<1>1. /\ pc = "send" /\ n <= left /\ left' = left - n
      /\ UNCHANGED <<input, end, head, acted, gone, status, due>>
  BY DEF SendSome, request
<1>2. left' \in 0..MaxAnswer /\ now \in Int /\ due \in Int
  BY <1>1, Numbers DEF Inv, TypeOK
<1>3. CASE Close /\ UNCHANGED <<now, waited>>
  BY <1>1, <1>2, <1>3, CloseSafe
<1>4. CASE now < due /\ waited' = 0 /\ UNCHANGED <<pc, now, file>>
  <2>1. TypeOK'
    BY <1>1, <1>2, <1>4, Numbers DEF Inv, TypeOK
  <2>2. Places' /\ ThreadIsFreed'
    BY <1>1, <1>2, <1>4, Numbers DEF Inv, Safety, Places, ThreadIsFreed
  <2>3. HandlerSeesAll' /\ FileIsReleased' /\ SilenceIsDeserved'
    BY <1>1, <1>4 DEF HandlerSeesAll, FileIsReleased, SilenceIsDeserved
  <2>4. ActsAreAuthentic'
    BY <1>1 DEF Inv, Safety, ActsAreAuthentic
  <2> QED BY <2>1, <2>2, <2>3, <2>4 DEF Inv, Safety
<1> QED BY <1>2, <1>3, <1>4 DEF SendSome

LEMMA SendFailsSafe == ASSUME Inv, SendFails PROVE Inv'
<1>1. /\ pc = "send" /\ Close
      /\ UNCHANGED <<input, end, head, acted, gone, status, due, now, waited, left>>
  BY DEF SendFails, request
<1>2. left' \in 0..MaxAnswer
  BY <1>1 DEF Inv, TypeOK
<1> QED BY <1>1, <1>2, CloseSafe

LEMMA LeaveSafe == ASSUME Inv, Leave PROVE Inv'
<1>1. /\ pc # "done" /\ gone' = TRUE
      /\ UNCHANGED <<input, end, head, acted, pc, now, waited, status, left, due, file>>
  BY DEF Leave, request
<1>2. TypeOK'
  BY <1>1 DEF Inv, TypeOK
<1>3. Places' /\ ThreadIsFreed'
  BY <1>1 DEF Inv, Safety, Places, ThreadIsFreed
<1>4. HandlerSeesAll' /\ FileIsReleased' /\ SilenceIsDeserved' /\ ActsAreAuthentic'
  BY <1>1 DEF Inv, Safety, HandlerSeesAll, FileIsReleased, SilenceIsDeserved, ActsAreAuthentic
<1> QED BY <1>2, <1>3, <1>4 DEF Inv, Safety

(* Waiting does not bring the deadline nearer than the call allows.        *)
LEMMA TickSafe == ASSUME Inv, Tick PROVE Inv'
<1>1. /\ pc \in {"head", "body", "send"} /\ waited < Wait /\ waited' = waited + 1
      /\ now' = IF now < Horizon THEN now + 1 ELSE now
      /\ UNCHANGED <<input, end, head, acted, pc, gone, status, left, due, file>>
  BY DEF Tick, request
<1>2. now \in 0..Horizon /\ waited \in 0..Wait /\ due \in Nat
  BY Numbers DEF Inv, TypeOK
<1>3. now' \in 0..Horizon /\ waited' \in 0..Wait /\ now' <= now + 1
  BY <1>1, <1>2, Numbers
<1>4. TypeOK'
  BY <1>1, <1>3 DEF Inv, TypeOK
<1>5. now' < due' + waited'
  <2>1. now < due + waited
    BY <1>1 DEF Inv, Safety, Places
  <2> QED BY <1>1, <1>2, <1>3, <2>1
<1>6. Places'
  BY <1>1, <1>5 DEF Inv, Safety, Places
<1>7. ThreadIsFreed'
  <2>1. pc \in {"head", "body"} => due' = Deadline
    BY <1>1 DEF Inv, Safety, Places
  <2>2. due' \in Nat
    BY <1>1, <1>2
  <2> QED BY <1>1, <1>2, <1>3, <1>5, <2>1, <2>2, Numbers DEF ThreadIsFreed
<1>8. HandlerSeesAll' /\ FileIsReleased' /\ SilenceIsDeserved' /\ ActsAreAuthentic'
  BY <1>1 DEF Inv, Safety, HandlerSeesAll, FileIsReleased, SilenceIsDeserved, ActsAreAuthentic
<1> QED BY <1>4, <1>6, <1>7, <1>8 DEF Inv, Safety

-----------------------------------------------------------------------------
LEMMA InitSafe == Init => Inv
<1> SUFFICES ASSUME Init PROVE Inv
  OBVIOUS
<1>1. TypeOK
  <2>1. now \in 0..Horizon /\ waited \in 0..Wait /\ left \in 0..MaxAnswer
    BY Numbers DEF Init
  <2>2. input \in Nat /\ end \in 0..input /\ head \in Head \union {NoHead}
    BY DEF Init
  <2>3. file \in [kind : {"none", "kept", "temporary"}, open : BOOLEAN]
    BY DEF Init, NoFile
  <2> QED BY <2>1, <2>2, <2>3 DEF Init, TypeOK
<1>2. Safety
  BY Numbers DEF Init, Safety, HandlerSeesAll, ActsAreAuthentic, ThreadIsFreed, FileIsReleased,
     SilenceIsDeserved, Places
<1> QED BY <1>1, <1>2 DEF Inv

LEMMA NextSafe == Inv /\ [Next]_vars => Inv'
<1> SUFFICES ASSUME Inv, [Next]_vars PROVE Inv'
  OBVIOUS
<1>1. ASSUME NEW n \in 1..Buffer, RecvHead(n) \/ RecvEnd(n) \/ RecvBody(n) \/ SendSome(n)
      PROVE  Inv'
  BY <1>1, RecvHeadSafe, RecvEndSafe, RecvBodySafe, SendSomeSafe
<1>2. CASE UNCHANGED vars
  <2>1. TypeOK'
    BY <1>2 DEF Inv, TypeOK, vars
  <2>2. Safety'
    BY <1>2 DEF Inv, Safety, HandlerSeesAll, ActsAreAuthentic, ThreadIsFreed, FileIsReleased,
       SilenceIsDeserved, Places, vars
  <2> QED BY <2>1, <2>2 DEF Inv
<1> QED BY <1>1, <1>2, RecvFailsSafe, HandleSafe, SendFailsSafe, LeaveSafe, TickSafe DEF Next

(* The inductive invariant holds for every size and every time-out: types, *)
(* and where the clocks, the file and the answer stand.                    *)
THEOREM ClientSafety == Spec => []Inv
BY InitSafe, NextSafe, PTL DEF Spec

(* Every variable keeps its type; the clock stays within its horizon and   *)
(* never more is sent than the answer has.                                 *)
THEOREM ClientTypes == Spec => []TypeOK
<1>1. Inv => TypeOK
  BY DEF Inv
<1> QED BY <1>1, ClientSafety, PTL

(* The application is given only accepted heads with whole bodies.         *)
THEOREM ClientHandlerSeesAll == Spec => []HandlerSeesAll
<1>1. Inv => HandlerSeesAll
  BY DEF Inv, Safety
<1> QED BY <1>1, ClientSafety, PTL

(* Only a whole and authentic POST changes anything.                       *)
THEOREM ClientActsAreAuthentic == Spec => []ActsAreAuthentic
<1>1. Inv => ActsAreAuthentic
  BY DEF Inv, Safety
<1> QED BY <1>1, ClientSafety, PTL

(* No client holds a thread for longer than a deadline and one call.       *)
THEOREM ClientThreadIsFreed == Spec => []ThreadIsFreed
<1>1. Inv => ThreadIsFreed
  BY DEF Inv, Safety
<1> QED BY <1>1, ClientSafety, PTL

(* The file of an answer is closed, and removed if it is temporary.        *)
THEOREM ClientFileIsReleased == Spec => []FileIsReleased
<1>1. Inv => FileIsReleased
  BY DEF Inv, Safety
<1> QED BY <1>1, ClientSafety, PTL

(* Nobody who sent a whole head is left without an answer by the server.   *)
THEOREM ClientSilenceIsDeserved == Spec => []SilenceIsDeserved
<1>1. Inv => SilenceIsDeserved
  BY DEF Inv, Safety
<1> QED BY <1>1, ClientSafety, PTL
=============================================================================
