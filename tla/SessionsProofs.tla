--------------------------- MODULE SessionsProofs ---------------------------
(***************************************************************************)
(* Proofs about the session tables of the daemon (Sessions): for any       *)
(* number of connections, applications, handles and table entries, with or *)
(* without failures of the PKCS#11 module, a live thread's table lists     *)
(* every session the client was given on its connection.  With one         *)
(* connection per application at a time, a thread closes sessions of its   *)
(* own application only, and unless the module fails it leaves none open.  *)
(***************************************************************************)
EXTENDS Sessions, WellFoundedInduction, TLAPS

\* The first of a nonempty set of table positions is one of them.
LEMMA FirstEntry ==
  ASSUME NEW T, T \subseteq Entries, T # {}
  PROVE  Min(T) \in T
<1>1. T \subseteq Nat
  BY SessionsAssumption DEF Entries
<1>2. \E x \in T : \A y \in T : ~ (<<y, x>> \in OpToRel(<, Nat))
  BY <1>1, NatLessThanWellFounded, WFMin
<1>3. \E x \in T : \A y \in T : x <= y
  <2>1. PICK x \in T : \A y \in T : ~ (<<y, x>> \in OpToRel(<, Nat))
    BY <1>2
  <2>2. ASSUME NEW y \in T, y < x PROVE FALSE
    <3>1. <<y, x>> \in Nat \X Nat /\ <<y, x>>[1] < <<y, x>>[2]
      BY <1>1, <2>2
    <3> QED
      BY <2>1, <3>1 DEF OpToRel
  <2> QED
    BY <1>1, <2>2
<1> QED
  BY <1>3 DEF Min

-----------------------------------------------------------------------------
\* Every variable starts in its range.
LEMMA TypeInit == Init => TypeOK
<1> SUFFICES ASSUME Init PROVE TypeOK
  OBVIOUS
<1>1. NoSlot \in Slots
  BY SessionsAssumption DEF NoSlot
<1> QED
  BY <1>1 DEF Init, TypeOK, Empty, Open, Locations, Ops, Codes

\* The module's part of closing a session keeps its state well typed, and
\* closes no session but h.
LEMMA ModuleCloseType ==
  ASSUME TypeOK, NEW c \in Conns, NEW h \in Handles,
         NEW r \in CloseResults(h), ModuleClose(c, h, r)
  PROVE  /\ opener' \in [Handles -> Conns \cup {0}]
         /\ slotOf' \in [Handles -> Slots]
         /\ told' \subseteq Open'
         /\ foreign' \in BOOLEAN
         /\ told' \subseteq told
         /\ \A k \in told' : opener'[k] = opener[k] /\ slotOf'[k] = slotOf[k]
         /\ (h \notin told' /\ r # "ERROR") \/ r = "ERROR"
<1>1. NoSlot \in Slots
  BY SessionsAssumption DEF NoSlot
<1>2. CASE r = "OK"
  BY <1>1, <1>2 DEF ModuleClose, TypeOK, Open
<1>3. CASE r # "OK"
  BY <1>3 DEF ModuleClose, TypeOK, Open, CloseResults
<1> QED
  BY <1>2, <1>3
\* The entry the loop looks at next lists a session.
LEMMA NextEntry ==
  ASSUME TypeOK, NEW c \in Conns, Todo(c) # {}
  PROVE  Min(Todo(c)) \in Entries /\ tab[c][Min(Todo(c))].id \in Handles
<1> DEFINE i == Min(Todo(c))
<1>1. Todo(c) \subseteq Entries
  BY DEF Todo
<1>2. i \in Todo(c)
  BY <1>1, FirstEntry
<1>3. i \in Entries /\ tab[c][i].id # 0
  BY <1>2 DEF Todo
<1>4. tab[c][i] \in [id : Handles \cup {0}, slot : Slots]
  BY <1>3 DEF TypeOK
<1> QED
  BY <1>3, <1>4

\* Steps that touch neither the tables nor the module.
LEMMA TypeFrame ==
  ASSUME TypeOK, UNCHANGED <<app, tab, opener, slotOf, told, foreign>>,
         pc' \in [Conns -> Locations], op' \in [Conns -> Ops],
         arg' \in [Conns -> Slots], ret' \in [Conns -> Codes]
  PROVE  TypeOK'
  BY DEF TypeOK, Open

\* No step of a dispatch thread takes a variable out of its range.
LEMMA TypeStep == TypeOK /\ [Next]_vars => TypeOK'
<1> SUFFICES ASSUME TypeOK, [Next]_vars PROVE TypeOK'
  OBVIOUS
<1>0. NoSlot \in Slots /\ Empty \in [id : Handles \cup {0}, slot : Slots]
  BY SessionsAssumption DEF NoSlot, Empty
<1>1. ASSUME NEW c \in Conns, Connect(c) PROVE TypeOK'
  BY <1>1 DEF Connect, TypeOK, Locations, Open
<1>2. ASSUME NEW c \in Conns, NEW s \in Slots, rpc_C_OpenSession(c, s)
      PROVE  TypeOK'
  <2>1. /\ pc' \in [Conns -> Locations] /\ op' \in [Conns -> Ops]
        /\ ret' \in [Conns -> Codes] /\ UNCHANGED <<app, arg, foreign>>
    BY <1>2 DEF rpc_C_OpenSession, Answer, TypeOK, Locations, Ops, Codes
  <2>2. CASE UNCHANGED <<tab, opener, slotOf, told>>
    BY <2>1, <2>2 DEF TypeOK, Open
  <2>3. ASSUME NEW h \in Handles \ Open,
               opener' = [opener EXCEPT ![h] = c],
               slotOf' = [slotOf EXCEPT ![h] = s],
               UNCHANGED <<tab, told>>
        PROVE  TypeOK'
    BY <2>1, <2>3, SessionsAssumption DEF TypeOK, Open
  <2>4. ASSUME NEW h \in Handles \ Open,
               opener' = [opener EXCEPT ![h] = c],
               slotOf' = [slotOf EXCEPT ![h] = s],
               NEW i \in Entries,
               tab' = [tab EXCEPT ![c][i] = [id |-> h, slot |-> s]],
               told' = told \cup {h}
        PROVE  TypeOK'
    <3>1. tab' \in [Conns -> [Entries -> [id : Handles \cup {0}, slot : Slots]]]
      BY <2>4 DEF TypeOK
    <3>2. told' \subseteq Open'
      BY <2>4, SessionsAssumption DEF TypeOK, Open
    <3> QED
      BY <2>1, <2>4, <3>1, <3>2 DEF TypeOK
  <2> DEFINE free == {i \in Entries : tab[c][i].id = 0}
  <2>5. free # {} => Min(free) \in Entries
    BY FirstEntry
  <2>6. \/ UNCHANGED <<tab, opener, slotOf, told>>
        \/ \E h \in Handles \ Open :
             /\ opener' = [opener EXCEPT ![h] = c]
             /\ slotOf' = [slotOf EXCEPT ![h] = s]
             /\ \/ UNCHANGED <<tab, told>>
                \/ /\ free # {}
                   /\ tab' = [tab EXCEPT ![c][Min(free)] = [id |-> h, slot |-> s]]
                   /\ told' = told \cup {h}
    BY <1>2 DEF rpc_C_OpenSession, FreeEntries
  <2> HIDE DEF free
  <2> QED
    BY <2>2, <2>3, <2>4, <2>5, <2>6
<1>3. ASSUME NEW c \in Conns, NEW h \in Handles, rpc_C_CloseSession(c, h)
      PROVE  TypeOK'
  <2>1. PICK r \in CloseResults(h) :
          /\ ModuleClose(c, h, r)
          /\ Answer(c, "C_CloseSession", r)
          /\ LET mine == {i \in Entries : tab[c][i].id = h}
             IN  tab' = IF r = "OK" /\ mine # {}
                        THEN [tab EXCEPT ![c][Min(mine)] = Empty] ELSE tab
    BY <1>3 DEF rpc_C_CloseSession, EntriesOf, Forget
  <2>2. r \in Codes
    BY DEF CloseResults, Codes
  <2>3. /\ pc' \in [Conns -> Locations] /\ op' \in [Conns -> Ops]
        /\ ret' \in [Conns -> Codes] /\ UNCHANGED <<app, arg>>
    BY <1>3, <2>1, <2>2
    DEF rpc_C_CloseSession, Answer, TypeOK, Locations, Ops
  <2>4. tab' \in [Conns -> [Entries -> [id : Handles \cup {0}, slot : Slots]]]
    BY <1>0, <2>1, FirstEntry DEF TypeOK
  <2> QED
    BY <2>1, <2>3, <2>4, ModuleCloseType DEF TypeOK
<1>4. ASSUME NEW c \in Conns, NEW s \in Slots, rpc_C_CloseAllSessions(c, s)
      PROVE  TypeOK'
  <2>1. CASE BeginLoop(c, "C_CloseAllSessions", s)
    BY <2>1, TypeFrame DEF BeginLoop, TypeOK, Locations, Ops, Codes
  <2>2. CASE /\ Answer(c, "C_CloseAllSessions", "ERROR")
             /\ UNCHANGED <<app, arg, tab, opener, slotOf, told, foreign>>
    BY <2>2, TypeFrame DEF Answer, TypeOK, Locations, Ops, Codes
  <2> QED
    BY <1>4, <2>1, <2>2 DEF rpc_C_CloseAllSessions
<1>5. ASSUME NEW c \in Conns, rpc_C_Finalize(c) \/ call_uninit(c) PROVE TypeOK'
  <2>1. CASE BeginLoop(c, "C_Finalize", NoSlot)
    BY <1>0, <2>1, TypeFrame DEF BeginLoop, TypeOK, Locations, Ops, Codes
  <2>2. CASE BeginLoop(c, "call_uninit", NoSlot)
    BY <1>0, <2>2, TypeFrame DEF BeginLoop, TypeOK, Locations, Ops, Codes
  <2> QED
    BY <1>5, <2>1, <2>2 DEF rpc_C_Finalize, call_uninit
<1>6. ASSUME NEW c \in Conns, CloseNext(c) PROVE TypeOK'
  <2> DEFINE i == Min(Todo(c))
             h == tab[c][i].id
  <2>1. i \in Entries /\ h \in Handles
    BY <1>6, NextEntry DEF CloseNext
  <2>2. PICK r \in CloseResults(h) :
          /\ ModuleClose(c, h, r)
          /\ tab' = tab \/ tab' = [tab EXCEPT ![c][i] = Empty]
          /\ UNCHANGED <<pc, op, ret>> \/ EndLoop(c, r)
    BY <1>6 DEF CloseNext, Forget
  <2>3. r \in Codes
    BY DEF CloseResults, Codes
  <2>4. /\ pc' \in [Conns -> Locations] /\ op' \in [Conns -> Ops]
        /\ ret' \in [Conns -> Codes] /\ UNCHANGED <<app, arg>>
    BY <1>6, <2>2, <2>3 DEF CloseNext, EndLoop, Answer, TypeOK, Locations, Ops
  <2>5. tab' \in [Conns -> [Entries -> [id : Handles \cup {0}, slot : Slots]]]
    <3> HIDE DEF i
    <3>1. CASE tab' = tab
      BY <3>1 DEF TypeOK
    <3>2. CASE tab' = [tab EXCEPT ![c][i] = Empty]
      BY <1>0, <2>1, <3>2 DEF TypeOK
    <3> QED
      BY <2>2, <3>1, <3>2
  <2> QED
    BY <2>1, <2>2, <2>4, <2>5, ModuleCloseType DEF TypeOK
<1>7. ASSUME NEW c \in Conns, ClosedAll(c) \/ Reply(c) PROVE TypeOK'
  <2>1. CASE ClosedAll(c)
    BY <2>1, TypeFrame DEF ClosedAll, EndLoop, Answer, TypeOK, Locations, Ops, Codes
  <2>2. CASE Reply(c)
    BY <1>0, <2>2, TypeFrame DEF Reply, TypeOK, Locations, Ops, Codes
  <2> QED
    BY <1>7, <2>1, <2>2
<1>8. CASE UNCHANGED vars
  BY <1>8 DEF vars, TypeOK, Open
<1> QED
  BY <1>1, <1>2, <1>3, <1>4, <1>5, <1>6, <1>7, <1>8 DEF Next

-----------------------------------------------------------------------------
\* Steps that leave the sessions and the tables alone, and bring no thread
\* that has gone back.
LEMMA RememberedFrame ==
  ASSUME TypeOK, Remembered, UNCHANGED <<tab, opener, slotOf, told>>,
         \A c \in Conns : pc[c] = "gone" => pc'[c] = "gone"
  PROVE  Remembered'
<1>1. \A h \in told : opener[h] \in Conns
  BY DEF TypeOK, Open
<1> QED
  BY <1>1 DEF Remembered

\* Closing a session h, and freeing one entry that lists h at most, forgets
\* no other session.
LEMMA RememberedClose ==
  ASSUME TypeOK, Remembered, NEW c \in Conns, NEW h \in Handles,
         NEW i \in Entries, NEW r \in CloseResults(h), ModuleClose(c, h, r),
         \A d \in Conns : pc[d] = "gone" => pc'[d] = "gone",
         tab' = tab \/ (/\ tab' = [tab EXCEPT ![c][i] = Empty]
                       /\ tab[c][i].id = h /\ r # "ERROR")
  PROVE  Remembered'
<1> SUFFICES ASSUME NEW k \in told', pc'[opener'[k]] # "gone"
             PROVE  \E j \in Entries : /\ tab'[opener'[k]][j].id = k
                                       /\ tab'[opener'[k]][j].slot = slotOf'[k]
  BY DEF Remembered
<1>1. k \in told /\ opener'[k] = opener[k] /\ slotOf'[k] = slotOf[k]
  BY ModuleCloseType
<1>2. opener[k] \in Conns
  BY <1>1 DEF TypeOK, Open
<1>3. PICK j \in Entries : tab[opener[k]][j].id = k /\ tab[opener[k]][j].slot = slotOf[k]
  BY <1>1, <1>2 DEF Remembered
<1>4. CASE tab' = tab
  BY <1>1, <1>3, <1>4
<1>5. CASE tab' = [tab EXCEPT ![c][i] = Empty] /\ tab[c][i].id = h /\ r # "ERROR"
  <2>1. k # h
    BY <1>5, ModuleCloseType
  <2>2. tab'[opener[k]][j] = tab[opener[k]][j]
    BY <1>2, <1>3, <1>5, <2>1 DEF TypeOK
  <2> QED
    BY <1>1, <1>3, <2>2
<1> QED
  BY <1>4, <1>5

\* No step makes a live thread forget a session.
LEMMA RememberedStep == TypeOK /\ Remembered /\ [Next]_vars => Remembered'
<1> SUFFICES ASSUME TypeOK, Remembered, [Next]_vars PROVE Remembered'
  OBVIOUS
<1>1. ASSUME NEW c \in Conns,
             Connect(c) \/ rpc_C_Finalize(c) \/ call_uninit(c)
               \/ ClosedAll(c) \/ Reply(c)
      PROVE  Remembered'
  <2>1. UNCHANGED <<tab, opener, slotOf, told>>
    BY <1>1 DEF Connect, rpc_C_Finalize, call_uninit, ClosedAll, Reply, BeginLoop
  <2>2. \A d \in Conns : pc[d] = "gone" => pc'[d] = "gone"
    BY <1>1 DEF Connect, rpc_C_Finalize, call_uninit, ClosedAll, Reply, BeginLoop,
                EndLoop, Answer, TypeOK
  <2> QED
    BY <2>1, <2>2, RememberedFrame
<1>2. ASSUME NEW c \in Conns, NEW s \in Slots, rpc_C_CloseAllSessions(c, s)
      PROVE  Remembered'
  <2>1. UNCHANGED <<tab, opener, slotOf, told>>
    BY <1>2 DEF rpc_C_CloseAllSessions, BeginLoop
  <2>2. \A d \in Conns : pc[d] = "gone" => pc'[d] = "gone"
    BY <1>2 DEF rpc_C_CloseAllSessions, BeginLoop, Answer, TypeOK
  <2> QED
    BY <2>1, <2>2, RememberedFrame
<1>3. ASSUME NEW c \in Conns, NEW s \in Slots, rpc_C_OpenSession(c, s)
      PROVE  Remembered'
  <2>1. pc[c] = "idle" /\ pc' = [pc EXCEPT ![c] = "answer"]
    BY <1>3 DEF rpc_C_OpenSession, Answer
  <2>2. \A d \in Conns : pc[d] = "gone" => pc'[d] = "gone"
    BY <2>1 DEF TypeOK
  <2>3. CASE UNCHANGED <<tab, opener, slotOf, told>>
    BY <2>2, <2>3, RememberedFrame
  <2>4. ASSUME NEW h \in Handles \ Open,
               opener' = [opener EXCEPT ![h] = c],
               slotOf' = [slotOf EXCEPT ![h] = s],
               \/ UNCHANGED <<tab, told>>
               \/ /\ told' = told \cup {h}
                  /\ LET free == {i \in Entries : tab[c][i].id = 0}
                     IN  /\ free # {}
                         /\ tab' = [tab EXCEPT ![c][Min(free)] = [id |-> h, slot |-> s]]
        PROVE  Remembered'
    <3> SUFFICES ASSUME NEW k \in told', pc'[opener'[k]] # "gone"
                 PROVE  \E j \in Entries : /\ tab'[opener'[k]][j].id = k
                                           /\ tab'[opener'[k]][j].slot = slotOf'[k]
      BY DEF Remembered
    <3> DEFINE free == {i \in Entries : tab[c][i].id = 0}
               e == Min(free)
    <3>1. free # {} => e \in Entries /\ tab[c][e].id = 0
      BY FirstEntry
    <3>2. CASE k \in told
      <4>1. k # h /\ opener[k] \in Conns /\ k \in Handles
        BY <2>4, <3>2 DEF TypeOK, Open
      <4>2. opener'[k] = opener[k] /\ slotOf'[k] = slotOf[k]
        BY <2>4, <4>1 DEF TypeOK
      <4>3. PICK j \in Entries : /\ tab[opener[k]][j].id = k
                                 /\ tab[opener[k]][j].slot = slotOf[k]
        BY <2>2, <3>2, <4>1, <4>2 DEF Remembered
      <4>4. k # 0
        BY <4>1, SessionsAssumption DEF Handles
      <4>5. tab'[opener[k]][j] = tab[opener[k]][j]
        <5>1. CASE tab' = tab
          BY <5>1
        <5>2. CASE free # {} /\ tab' = [tab EXCEPT ![c][e] = [id |-> h, slot |-> s]]
          <6>1. opener[k] # c \/ j # e
            BY <3>1, <4>3, <4>4, <5>2
          <6> QED
            BY <3>1, <4>1, <5>2, <6>1 DEF TypeOK
        <5> QED
          BY <2>4, <5>1, <5>2
      <4> QED
        BY <4>2, <4>3, <4>5
    <3>3. CASE k \notin told
      <4>1. k = h /\ free # {} /\ tab' = [tab EXCEPT ![c][e] = [id |-> h, slot |-> s]]
        BY <2>4, <3>3
      <4>2. opener'[k] = c /\ slotOf'[k] = s
        BY <2>4, <4>1 DEF TypeOK
      <4>3. tab'[c][e].id = h /\ tab'[c][e].slot = s
        BY <3>1, <4>1 DEF TypeOK
      <4> QED
        BY <3>1, <4>1, <4>2, <4>3
    <3> QED
      BY <3>2, <3>3
  <2> QED
    BY <1>3, <2>3, <2>4 DEF rpc_C_OpenSession, FreeEntries
<1>4. ASSUME NEW c \in Conns, NEW h \in Handles, rpc_C_CloseSession(c, h)
      PROVE  Remembered'
  <2> DEFINE mine == {i \in Entries : tab[c][i].id = h}
  <2>1. PICK r \in CloseResults(h) :
          /\ ModuleClose(c, h, r)
          /\ tab' = IF r = "OK" /\ mine # {}
                    THEN [tab EXCEPT ![c][Min(mine)] = Empty] ELSE tab
    BY <1>4 DEF rpc_C_CloseSession, EntriesOf, Forget
  <2>2. \A d \in Conns : pc[d] = "gone" => pc'[d] = "gone"
    BY <1>4 DEF rpc_C_CloseSession, Answer, TypeOK
  <2>3. mine # {} => Min(mine) \in Entries /\ tab[c][Min(mine)].id = h
    BY FirstEntry
  <2>4. 1 \in Entries
    BY SessionsAssumption DEF Entries
  <2>5. CASE mine # {}
    BY <2>1, <2>2, <2>3, <2>5, RememberedClose
  <2>6. CASE mine = {}
    BY <2>1, <2>2, <2>4, <2>6, RememberedClose
  <2> QED
    BY <2>5, <2>6
<1>5. ASSUME NEW c \in Conns, CloseNext(c) PROVE Remembered'
  <2> DEFINE i == Min(Todo(c))
             h == tab[c][i].id
  <2>1. i \in Entries /\ h \in Handles
    BY <1>5, NextEntry DEF CloseNext
  <2>2. PICK r \in CloseResults(h) :
          /\ ModuleClose(c, h, r)
          /\ tab' = tab \/ (tab' = [tab EXCEPT ![c][i] = Empty] /\ r # "ERROR")
          /\ UNCHANGED <<pc, op, ret>> \/ EndLoop(c, r)
    BY <1>5 DEF CloseNext, Forget
  <2>3. \A d \in Conns : pc[d] = "gone" => pc'[d] = "gone"
    BY <1>5, <2>2 DEF CloseNext, EndLoop, Answer, TypeOK
  <2> QED
    BY <2>1, <2>2, <2>3, RememberedClose
<1>6. CASE UNCHANGED vars
  BY <1>6, RememberedFrame DEF vars
<1> QED
  BY <1>1, <1>2, <1>3, <1>4, <1>5, <1>6 DEF Next

-----------------------------------------------------------------------------
(* Whose sessions a thread closes, when an application has one connection  *)
(* at a time.                                                              *)

\* Two connections of an application: one of them has ended.
Apart ==
  \A c, d \in Conns :
    c # d /\ app[c] = app[d] /\ app[c] # NoApp => pc[c] = "gone" \/ pc[d] = "gone"

\* A thread knows its application from its first step on.
Started == \A c \in Conns : pc[c] = "none" <=> app[c] = NoApp

\* A session was opened by a thread that had started.
OpenedLate == \A h \in Handles : opener[h] # 0 => pc[opener[h]] # "none"

\* The table of a live thread lists open sessions, its own, each in one entry.
Listed ==
  \A c \in Conns, i \in Entries :
    pc[c] # "gone" /\ tab[c][i].id # 0 => opener[tab[c][i].id] = c
Once ==
  \A c \in Conns, i, j \in Entries :
    pc[c] # "gone" /\ tab[c][i].id # 0 /\ tab[c][i].id = tab[c][j].id => i = j

OwnInv == Apart /\ Started /\ OpenedLate /\ Listed /\ Once

\* What becomes of the threads' locations in a step that starts none.
Onwards ==
  \A d \in Conns : /\ pc[d] = "gone" => pc'[d] = "gone"
                   /\ pc'[d] = "none" <=> pc[d] = "none"

\* Steps that leave the sessions and the tables alone.
LEMMA OwnFrame ==
  ASSUME TypeOK, OwnInv, UNCHANGED <<app, tab, opener>>, Onwards
  PROVE  OwnInv'
<1>1. Apart' /\ Started'
  BY DEF OwnInv, Apart, Started, Onwards, TypeOK
<1>2. OpenedLate'
  <2>1. \A h \in Handles : opener[h] # 0 => opener[h] \in Conns
    BY DEF TypeOK
  <2> QED
    BY <2>1 DEF OwnInv, OpenedLate, Onwards
<1>3. Listed' /\ Once'
  BY DEF OwnInv, Listed, Once, Onwards
<1> QED
  BY <1>1, <1>2, <1>3 DEF OwnInv

\* Closing a session h that no other live thread lists, and freeing the entry
\* of it that c has, if any.
LEMMA OwnClose ==
  ASSUME TypeOK, OwnInv, NEW c \in Conns, NEW h \in Handles,
         NEW r \in CloseResults(h), ModuleClose(c, h, r), Onwards,
         UNCHANGED app, pc[c] # "gone",
         h \in Open => opener[h] = c \/ pc[opener[h]] = "gone",
         \/ /\ tab' = tab
            /\ r = "OK" => \A i \in Entries : tab[c][i].id # h
         \/ \E i \in Entries : /\ tab[c][i].id = h
                               /\ tab' = [tab EXCEPT ![c][i] = Empty]
  PROVE  OwnInv'
<1>0. h # 0
  BY SessionsAssumption DEF Handles
<1>1. CASE r # "OK"
  <2>1. UNCHANGED opener
    BY <1>1 DEF ModuleClose
  <2>2. CASE UNCHANGED tab
    BY <2>1, <2>2, OwnFrame
  <2>3. ASSUME NEW i \in Entries, tab[c][i].id = h, tab' = [tab EXCEPT ![c][i] = Empty]
        PROVE  OwnInv'
    <3>1. /\ \A d \in Conns, j \in Entries :
               tab'[d][j] = IF d = c /\ j = i THEN Empty ELSE tab[d][j]
      BY <2>3 DEF TypeOK
    <3>2. Listed' /\ Once'
      BY <2>1, <3>1 DEF OwnInv, Listed, Once, Onwards, Empty
    <3>3. Apart' /\ Started' /\ OpenedLate'
      <4>1. \A k \in Handles : opener[k] # 0 => opener[k] \in Conns
        BY DEF TypeOK
      <4> QED
        BY <2>1, <4>1 DEF OwnInv, Apart, Started, OpenedLate, Onwards, TypeOK
    <3> QED
      BY <3>2, <3>3 DEF OwnInv
  <2> QED
    BY <1>1, <2>2, <2>3
<1>2. CASE r = "OK"
  <2>1. h \in Open /\ opener' = [opener EXCEPT ![h] = 0]
    BY <1>2 DEF ModuleClose, CloseResults
  <2>2. \A k \in Handles : opener'[k] = IF k = h THEN 0 ELSE opener[k]
    BY <2>1 DEF TypeOK
  <2>3. Apart' /\ Started'
    BY DEF OwnInv, Apart, Started, Onwards, TypeOK
  <2>4. OpenedLate'
    <3>1. \A k \in Handles : opener[k] # 0 => opener[k] \in Conns
      BY DEF TypeOK
    <3> QED
      BY <2>2, <3>1 DEF OwnInv, OpenedLate, Onwards
  <2>5. \A d \in Conns, j \in Entries :
          /\ tab[d][j].id \in Handles \cup {0}
          /\ pc[d] # "gone" /\ tab[d][j].id = h => d = c
    BY <1>0, <2>1 DEF TypeOK, OwnInv, Listed
  <2>6. \A d \in Conns, j \in Entries :
          /\ tab'[d][j].id = 0 \/ tab'[d][j].id = tab[d][j].id
          /\ pc[d] # "gone" => tab'[d][j].id # h
    <3>1. CASE tab' = tab /\ \A i \in Entries : tab[c][i].id # h
      BY <2>5, <3>1
    <3>2. ASSUME NEW i \in Entries, tab[c][i].id = h, tab' = [tab EXCEPT ![c][i] = Empty]
          PROVE  \A d \in Conns, j \in Entries :
                   /\ tab'[d][j].id = 0 \/ tab'[d][j].id = tab[d][j].id
                   /\ pc[d] # "gone" => tab'[d][j].id # h
      <4>1. \A d \in Conns, j \in Entries :
              tab'[d][j] = IF d = c /\ j = i THEN Empty ELSE tab[d][j]
        BY <3>2 DEF TypeOK
      <4>2. \A j \in Entries : tab[c][j].id = h => j = i
        BY <1>0, <3>2 DEF OwnInv, Once
      <4> QED
        BY <1>0, <2>5, <4>1, <4>2 DEF Empty
    <3> QED
      BY <1>2, <3>1, <3>2
  <2>7. Listed'
    <3> SUFFICES ASSUME NEW d \in Conns, NEW j \in Entries,
                        pc'[d] # "gone", tab'[d][j].id # 0
                 PROVE  opener'[tab'[d][j].id] = d
      BY DEF Listed
    <3>1. pc[d] # "gone" /\ tab'[d][j].id = tab[d][j].id /\ tab[d][j].id # h
      BY <2>6 DEF Onwards
    <3> QED
      BY <2>2, <2>5, <3>1 DEF OwnInv, Listed
  <2>8. Once'
    BY <2>6 DEF OwnInv, Once, Onwards
  <2> QED
    BY <2>3, <2>4, <2>7, <2>8 DEF OwnInv
<1> QED
  BY <1>1, <1>2

\* The session of a handle the application may close is its thread's own, or
\* that of a thread that has ended.
LEMMA OwnOrEnded ==
  ASSUME TypeOK, OwnInv, NEW c \in Conns, NEW h \in Open,
         pc[c] \notin {"none", "gone"}, app[opener[h]] = app[c]
  PROVE  opener[h] = c \/ pc[opener[h]] = "gone"
<1>1. h \in Handles /\ opener[h] \in Conns
  BY DEF Open, TypeOK
<1> QED
  BY <1>1 DEF OwnInv, Apart, Started

\* Where c stands when it closes the next session of its table.
LEMMA OwnNext ==
  ASSUME TypeOK, OwnInv, NEW c \in Conns, pc[c] = "loop", Todo(c) # {}
  PROVE  LET i == Min(Todo(c)) IN
         /\ i \in Entries /\ tab[c][i].id \in Handles
         /\ tab[c][i].id \in Open /\ opener[tab[c][i].id] = c
<1> DEFINE i == Min(Todo(c))
<1>1. i \in Entries /\ tab[c][i].id \in Handles
  BY NextEntry
<1>2. tab[c][i].id # 0
  BY <1>1, SessionsAssumption DEF Handles
<1>3. opener[tab[c][i].id] = c
  BY <1>1, <1>2 DEF OwnInv, Listed
<1> QED
  BY <1>1, <1>3, SessionsAssumption DEF Open

\* No step breaks it.
LEMMA OwnStep == OneConn /\ TypeOK /\ OwnInv /\ [Next]_vars => OwnInv'
<1> SUFFICES ASSUME OneConn, TypeOK, OwnInv, [Next]_vars PROVE OwnInv'
  OBVIOUS
<1>1. ASSUME NEW c \in Conns, Connect(c) PROVE OwnInv'
  <2>1. PICK a \in Apps : /\ \A d \in Conns : app[d] = a => pc[d] = "gone"
                          /\ app' = [app EXCEPT ![c] = a]
    BY <1>1 DEF Connect
  <2>2. pc[c] = "none" /\ pc' = [pc EXCEPT ![c] = "idle"] /\ UNCHANGED <<tab, opener>>
    BY <1>1 DEF Connect
  <2>3. Apart' /\ Started'
    BY <2>1, <2>2, SessionsAssumption DEF OwnInv, Apart, Started, TypeOK
  <2>4. OpenedLate' /\ Listed' /\ Once'
    <3>1. \A k \in Handles : opener[k] # 0 => opener[k] \in Conns
      BY DEF TypeOK
    <3>2. \A d \in Conns : (pc[d] = "gone" <=> pc'[d] = "gone") /\ (pc'[d] = "none" => pc[d] = "none")
      BY <2>2 DEF TypeOK
    <3> QED
      BY <2>2, <3>1, <3>2 DEF OwnInv, OpenedLate, Listed, Once
  <2> QED
    BY <2>3, <2>4 DEF OwnInv
<1>2. ASSUME NEW c \in Conns, NEW s \in Slots, rpc_C_OpenSession(c, s) PROVE OwnInv'
  <2>1. pc[c] = "idle" /\ pc' = [pc EXCEPT ![c] = "answer"] /\ UNCHANGED app
    BY <1>2 DEF rpc_C_OpenSession, Answer
  <2>2. Onwards
    BY <2>1 DEF Onwards, TypeOK
  <2>3. CASE UNCHANGED <<tab, opener>>
    BY <2>1, <2>2, <2>3, OwnFrame
  <2>4. ASSUME NEW h \in Handles \ Open, opener' = [opener EXCEPT ![h] = c],
               \/ UNCHANGED tab
               \/ \E i \in Entries : /\ tab[c][i].id = 0
                                     /\ tab' = [tab EXCEPT ![c][i] = [id |-> h, slot |-> s]]
        PROVE  OwnInv'
    <3>1. \A k \in Handles : opener'[k] = IF k = h THEN c ELSE opener[k]
      BY <2>4 DEF TypeOK
    <3>2. Apart' /\ Started'
      BY <2>1, <2>2 DEF OwnInv, Apart, Started, Onwards, TypeOK
    <3>3. OpenedLate'
      <4>1. \A k \in Handles : opener[k] # 0 => opener[k] \in Conns
        BY DEF TypeOK
      <4> QED
        BY <2>1, <2>2, <3>1, <4>1 DEF OwnInv, OpenedLate, Onwards
    <3>4. \A d \in Conns, j \in Entries :
            /\ tab[d][j].id \in Handles \cup {0}
            /\ pc[d] # "gone" => tab[d][j].id # h
      <4>1. h # 0 /\ opener[h] = 0
        BY <2>4, SessionsAssumption DEF Handles, Open
      <4> QED
        BY <4>1, SessionsAssumption DEF OwnInv, Listed, TypeOK
    <3>5. CASE UNCHANGED tab
      <4>1. Listed' /\ Once'
        BY <2>2, <3>1, <3>4, <3>5 DEF OwnInv, Listed, Once, Onwards
      <4> QED
        BY <3>2, <3>3, <4>1 DEF OwnInv
    <3>6. ASSUME NEW i \in Entries, tab[c][i].id = 0,
                 tab' = [tab EXCEPT ![c][i] = [id |-> h, slot |-> s]]
          PROVE  OwnInv'
      <4>1. \A d \in Conns, j \in Entries :
              tab'[d][j].id = IF d = c /\ j = i THEN h ELSE tab[d][j].id
        BY <3>6 DEF TypeOK
      <4>2. Listed'
        BY <2>2, <3>1, <3>4, <4>1 DEF OwnInv, Listed, Onwards
      <4>3. Once'
        BY <2>2, <3>4, <4>1 DEF OwnInv, Once, Onwards
      <4> QED
        BY <3>2, <3>3, <4>2, <4>3 DEF OwnInv
    <3> QED
      BY <2>4, <3>5, <3>6
  <2> DEFINE free == {i \in Entries : tab[c][i].id = 0}
  <2>5. free # {} => Min(free) \in Entries /\ tab[c][Min(free)].id = 0
    BY FirstEntry
  <2>6. \/ UNCHANGED <<tab, opener>>
        \/ \E h \in Handles \ Open :
             /\ opener' = [opener EXCEPT ![h] = c]
             /\ \/ UNCHANGED tab
                \/ /\ free # {}
                   /\ tab' = [tab EXCEPT ![c][Min(free)] = [id |-> h, slot |-> s]]
    BY <1>2 DEF rpc_C_OpenSession, FreeEntries
  <2> HIDE DEF free
  <2> QED
    BY <2>3, <2>4, <2>5, <2>6
<1>3. ASSUME NEW c \in Conns, NEW h \in Handles, rpc_C_CloseSession(c, h) PROVE OwnInv'
  <2> DEFINE mine == {i \in Entries : tab[c][i].id = h}
  <2>1. PICK r \in CloseResults(h) :
          /\ ModuleClose(c, h, r)
          /\ tab' = IF r = "OK" /\ mine # {}
                    THEN [tab EXCEPT ![c][Min(mine)] = Empty] ELSE tab
    BY <1>3 DEF rpc_C_CloseSession, EntriesOf, Forget
  <2>2. pc[c] = "idle" /\ Onwards /\ UNCHANGED app
    BY <1>3 DEF rpc_C_CloseSession, Answer, TypeOK, Onwards
  <2>3. mine # {} => Min(mine) \in Entries /\ tab[c][Min(mine)].id = h
    BY FirstEntry
  <2>4. h \in Open => opener[h] = c \/ pc[opener[h]] = "gone"
    <3>1. h \in Open => app[opener[h]] = app[c]
      BY <1>3 DEF rpc_C_CloseSession
    <3> QED
      BY <2>2, <3>1, OwnOrEnded
  <2>5. \/ /\ tab' = tab
           /\ r = "OK" => \A i \in Entries : tab[c][i].id # h
        \/ \E i \in Entries : /\ tab[c][i].id = h
                              /\ tab' = [tab EXCEPT ![c][i] = Empty]
    <3>1. CASE r = "OK" /\ mine # {}
      BY <2>1, <2>3, <3>1
    <3>2. CASE ~ (r = "OK" /\ mine # {})
      BY <2>1, <3>2
    <3> QED
      BY <3>1, <3>2
  <2> QED
    BY <2>1, <2>2, <2>4, <2>5, OwnClose
<1>4. ASSUME NEW c \in Conns, NEW s \in Slots, rpc_C_CloseAllSessions(c, s) PROVE OwnInv'
  <2>1. UNCHANGED <<app, tab, opener>>
    BY <1>4 DEF rpc_C_CloseAllSessions, BeginLoop
  <2>2. Onwards
    BY <1>4 DEF rpc_C_CloseAllSessions, BeginLoop, Answer, TypeOK, Onwards
  <2> QED
    BY <2>1, <2>2, OwnFrame
<1>5. ASSUME NEW c \in Conns,
             rpc_C_Finalize(c) \/ call_uninit(c) \/ ClosedAll(c) \/ Reply(c)
      PROVE  OwnInv'
  <2>1. UNCHANGED <<app, tab, opener>>
    BY <1>5 DEF rpc_C_Finalize, call_uninit, ClosedAll, Reply, BeginLoop
  <2>2. Onwards
    BY <1>5 DEF rpc_C_Finalize, call_uninit, ClosedAll, Reply, BeginLoop, EndLoop,
                Answer, TypeOK, Onwards
  <2> QED
    BY <2>1, <2>2, OwnFrame
<1>6. ASSUME NEW c \in Conns, CloseNext(c) PROVE OwnInv'
  <2> DEFINE i == Min(Todo(c))
             h == tab[c][i].id
  <2>0. pc[c] = "loop" /\ Todo(c) # {} /\ UNCHANGED app
    BY <1>6 DEF CloseNext
  <2>1. i \in Entries /\ h \in Handles /\ h \in Open /\ opener[h] = c
    BY <2>0, OwnNext
  <2>2. PICK r \in CloseResults(h) :
          /\ ModuleClose(c, h, r)
          /\ r = "OK" => tab' = [tab EXCEPT ![c][i] = Empty]
          /\ tab' = tab \/ tab' = [tab EXCEPT ![c][i] = Empty]
          /\ UNCHANGED <<pc, op, ret>> \/ EndLoop(c, r)
    BY <1>6 DEF CloseNext, Forget
  <2>3. Onwards
    BY <2>0, <2>2 DEF EndLoop, Answer, TypeOK, Onwards
  <2> HIDE DEF i
  <2> QED
    BY <2>0, <2>1, <2>2, <2>3, OwnClose
<1>7. CASE UNCHANGED vars
  BY <1>7, OwnFrame DEF vars, Onwards
<1> QED
  BY <1>1, <1>2, <1>3, <1>4, <1>5, <1>6, <1>7 DEF Next

\* A session that is closed is one of the closing thread's application.
LEMMA ForeignStep ==
  TypeOK /\ OwnInv /\ OwnSessionsOnly /\ [Next]_vars => OwnSessionsOnly'
<1> SUFFICES ASSUME TypeOK, OwnInv, OwnSessionsOnly, [Next]_vars
             PROVE  OwnSessionsOnly'
  OBVIOUS
<1>1. ASSUME NEW c \in Conns, NEW h \in Handles, rpc_C_CloseSession(c, h)
      PROVE  OwnSessionsOnly'
  <2>1. h \in Open => app[opener[h]] = app[c]
    BY <1>1 DEF rpc_C_CloseSession
  <2>2. PICK r \in CloseResults(h) : ModuleClose(c, h, r)
    BY <1>1 DEF rpc_C_CloseSession
  <2> QED
    BY <2>1, <2>2 DEF ModuleClose, CloseResults, OwnSessionsOnly
<1>2. ASSUME NEW c \in Conns, CloseNext(c) PROVE OwnSessionsOnly'
  <2> DEFINE h == tab[c][Min(Todo(c))].id
  <2>1. opener[h] = c
    BY <1>2, OwnNext DEF CloseNext
  <2>2. PICK r \in CloseResults(h) : ModuleClose(c, h, r)
    BY <1>2 DEF CloseNext
  <2> QED
    BY <2>1, <2>2 DEF ModuleClose, OwnSessionsOnly
<1>3. ASSUME NEW c \in Conns, NEW s \in Slots,
             rpc_C_OpenSession(c, s) \/ rpc_C_CloseAllSessions(c, s)
      PROVE  OwnSessionsOnly'
  BY <1>3 DEF rpc_C_OpenSession, rpc_C_CloseAllSessions, BeginLoop, OwnSessionsOnly
<1>4. ASSUME NEW c \in Conns,
             Connect(c) \/ rpc_C_Finalize(c) \/ call_uninit(c) \/ ClosedAll(c) \/ Reply(c)
      PROVE  OwnSessionsOnly'
  BY <1>4 DEF Connect, rpc_C_Finalize, call_uninit, BeginLoop, ClosedAll, Reply,
              OwnSessionsOnly
<1>5. CASE UNCHANGED vars
  BY <1>5 DEF vars, OwnSessionsOnly
<1> QED
  BY <1>1, <1>2, <1>3, <1>4, <1>5 DEF Next

\* No thread has started, and the tables are empty.
LEMMA OwnInit == Init => OwnInv /\ OwnSessionsOnly
<1> SUFFICES ASSUME Init PROVE OwnInv /\ OwnSessionsOnly
  OBVIOUS
<1> QED
  BY DEF Init, Empty, OwnInv, Apart, Started, OpenedLate, Listed, Once, OwnSessionsOnly

-----------------------------------------------------------------------------
(* What is left of an application's sessions, when moreover the module     *)
(* fails no call for reasons of its own.                                   *)

\* No session that a client was given outlives its thread.
Held == \A h \in told : pc[opener[h]] # "gone"

TidyInv == TypeOK /\ Remembered /\ OwnInv /\ Held /\ CloseAllComplete

\* The loop that has nothing left to close has closed what it was to close.
LEMMA NothingLeft ==
  ASSUME TypeOK, Remembered, NEW c \in Conns, pc[c] = "loop", Todo(c) = {},
         NEW h \in told, opener[h] = c
  PROVE  op[c] = "C_CloseAllSessions" /\ slotOf[h] # arg[c]
<1>1. h \in Handles /\ h # 0
  BY SessionsAssumption DEF TypeOK, Open, Handles
<1>2. PICK i \in Entries : tab[c][i].id = h /\ tab[c][i].slot = slotOf[h]
  BY DEF Remembered
<1>3. i \notin Todo(c)
  OBVIOUS
<1> QED
  BY <1>1, <1>2, <1>3 DEF Todo

\* A turn of the loop closes its session, and the thread stays.
LEMMA TurnCloses ==
  ASSUME TypeOK, OwnInv, ~ModuleErrors, NEW c \in Conns, CloseNext(c)
  PROVE  /\ UNCHANGED <<app, arg, pc, op, ret>>
         /\ told' \subseteq told
         /\ \A k \in told' : opener'[k] = opener[k] /\ slotOf'[k] = slotOf[k]
<1> DEFINE h == tab[c][Min(Todo(c))].id
<1>1. h \in Handles /\ h \in Open
  BY OwnNext DEF CloseNext
<1>2. ModuleClose(c, h, "OK") /\ UNCHANGED <<app, arg, pc, op, ret>>
  BY <1>1 DEF CloseNext, CloseResults
<1>3. "OK" \in CloseResults(h)
  BY <1>1 DEF CloseResults
<1> QED
  BY <1>1, <1>2, <1>3, ModuleCloseType

\* Steps after which the given sessions are among those of before, and which
\* neither end a thread nor begin the answer to a C_CloseAllSessions.
LEMMA TidyFrame ==
  ASSUME TypeOK, OwnInv, Held, CloseAllComplete, told' \subseteq told,
         \A k \in told' : opener'[k] = opener[k] /\ slotOf'[k] = slotOf[k],
         \A d \in Conns : pc'[d] = "gone" => pc[d] = "gone",
         \A d \in Conns : pc[d] # "none" => app'[d] = app[d],
         \A d \in Conns :
           pc'[d] = "answer" /\ op'[d] = "C_CloseAllSessions" /\ ret'[d] = "OK"
             => pc[d] = "answer" /\ UNCHANGED <<op[d], ret[d], arg[d]>>
  PROVE  Held' /\ CloseAllComplete'
<1>1. \A k \in told : k \in Handles /\ opener[k] \in Conns /\ pc[opener[k]] # "none"
  BY SessionsAssumption DEF TypeOK, Open, OwnInv, OpenedLate
<1>2. Held'
  BY <1>1 DEF Held
<1>3. CloseAllComplete'
  <2> SUFFICES ASSUME NEW c \in Conns, pc'[c] = "answer",
                      op'[c] = "C_CloseAllSessions", ret'[c] = "OK",
                      NEW k \in told', slotOf'[k] = arg'[c]
               PROVE  app'[opener'[k]] # app'[c]
    BY DEF CloseAllComplete
  <2>1. pc[c] = "answer" /\ op[c] = "C_CloseAllSessions" /\ ret[c] = "OK"
        /\ slotOf[k] = arg[c] /\ k \in told
    OBVIOUS
  <2>2. app[opener[k]] # app[c]
    BY <2>1 DEF CloseAllComplete
  <2> QED
    BY <1>1, <2>1, <2>2
<1> QED
  BY <1>2, <1>3

\* No step leaves a given session behind.
LEMMA TidyStep ==
  OneConn /\ ~ModuleErrors /\ TidyInv /\ [Next]_vars => TidyInv'
<1> SUFFICES ASSUME OneConn, ~ModuleErrors, TidyInv, [Next]_vars PROVE TidyInv'
  OBVIOUS
<1> USE DEF TidyInv
<1>0. TypeOK' /\ Remembered' /\ OwnInv'
  BY TypeStep, RememberedStep, OwnStep
<1> SUFFICES Held' /\ CloseAllComplete'
  BY <1>0
<1>1. ASSUME NEW c \in Conns, Connect(c) PROVE Held' /\ CloseAllComplete'
  BY <1>1, TidyFrame DEF Connect, TypeOK
<1>2. ASSUME NEW c \in Conns, NEW s \in Slots, rpc_C_OpenSession(c, s)
      PROVE  Held' /\ CloseAllComplete'
  <2>1. /\ pc[c] = "idle" /\ pc' = [pc EXCEPT ![c] = "answer"]
        /\ op' = [op EXCEPT ![c] = "C_OpenSession"] /\ UNCHANGED <<app, arg>>
        /\ \A d \in Conns : d # c => ret'[d] = ret[d]
    BY <1>2 DEF rpc_C_OpenSession, Answer, TypeOK
  <2>2. \A k \in told : k \in Handles /\ opener[k] \in Conns /\ k \in Open
    BY DEF TypeOK, Open
  <2>3. CASE UNCHANGED <<opener, slotOf, told>>
    BY <2>1, <2>3, TidyFrame DEF TypeOK
  <2>4. ASSUME NEW h \in Handles \ Open, opener' = [opener EXCEPT ![h] = c],
               slotOf' = [slotOf EXCEPT ![h] = s], told' \subseteq told \cup {h}
        PROVE  Held' /\ CloseAllComplete'
    <3>1. \A k \in told : opener'[k] = opener[k] /\ slotOf'[k] = slotOf[k]
      BY <2>2, <2>4 DEF TypeOK
    <3>2. opener'[h] = c
      BY <2>4 DEF TypeOK
    <3>3. Held'
      BY <2>1, <2>2, <2>4, <3>1, <3>2 DEF Held, TypeOK
    <3>4. CloseAllComplete'
      <4> SUFFICES ASSUME NEW d \in Conns, pc'[d] = "answer",
                          op'[d] = "C_CloseAllSessions", ret'[d] = "OK",
                          NEW k \in told', slotOf'[k] = arg'[d]
                   PROVE  app[opener'[k]] # app[d]
        BY <2>1 DEF CloseAllComplete
      <4>1. d # c /\ pc[d] = "answer" /\ op[d] = "C_CloseAllSessions" /\ ret[d] = "OK"
        BY <2>1 DEF TypeOK
      <4>2. CASE k \in told
        BY <2>1, <3>1, <4>1, <4>2 DEF CloseAllComplete
      <4>3. CASE k = h
        BY <2>1, <3>2, <4>1, <4>3 DEF OwnInv, Apart, Started
      <4> QED
        BY <2>4, <4>2, <4>3
    <3> QED
      BY <3>3, <3>4
  <2>5. \/ UNCHANGED <<opener, slotOf, told>>
        \/ \E h \in Handles \ Open :
             /\ opener' = [opener EXCEPT ![h] = c]
             /\ slotOf' = [slotOf EXCEPT ![h] = s]
             /\ told' \subseteq told \cup {h}
    BY <1>2 DEF rpc_C_OpenSession
  <2> QED
    BY <2>3, <2>4, <2>5
<1>3. ASSUME NEW c \in Conns, NEW h \in Handles, rpc_C_CloseSession(c, h)
      PROVE  Held' /\ CloseAllComplete'
  <2>1. PICK r \in CloseResults(h) :
          ModuleClose(c, h, r) /\ Answer(c, "C_CloseSession", r)
    BY <1>3 DEF rpc_C_CloseSession
  <2>2. UNCHANGED <<app, arg>> /\ pc[c] = "idle"
    BY <1>3 DEF rpc_C_CloseSession
  <2>3. /\ told' \subseteq told
        /\ \A k \in told' : opener'[k] = opener[k] /\ slotOf'[k] = slotOf[k]
    BY <2>1, ModuleCloseType
  <2> QED
    BY <2>1, <2>2, <2>3, TidyFrame DEF Answer, TypeOK
<1>4. ASSUME NEW c \in Conns, NEW s \in Slots, rpc_C_CloseAllSessions(c, s)
      PROVE  Held' /\ CloseAllComplete'
  BY <1>4, TidyFrame DEF rpc_C_CloseAllSessions, BeginLoop, TypeOK
<1>5. ASSUME NEW c \in Conns, rpc_C_Finalize(c) \/ call_uninit(c) \/ Reply(c)
      PROVE  Held' /\ CloseAllComplete'
  <2>1. CASE rpc_C_Finalize(c)
    BY <2>1, TidyFrame DEF rpc_C_Finalize, BeginLoop, TypeOK
  <2>2. CASE call_uninit(c)
    BY <2>2, TidyFrame DEF call_uninit, BeginLoop, TypeOK
  <2>3. CASE Reply(c)
    BY <2>3, TidyFrame DEF Reply, TypeOK
  <2> QED
    BY <1>5, <2>1, <2>2, <2>3
<1>6. ASSUME NEW c \in Conns, CloseNext(c) PROVE Held' /\ CloseAllComplete'
  BY <1>6, TurnCloses, TidyFrame
<1>7. ASSUME NEW c \in Conns, ClosedAll(c) PROVE Held' /\ CloseAllComplete'
  <2>1. /\ pc[c] = "loop" /\ Todo(c) = {} /\ EndLoop(c, "OK")
        /\ UNCHANGED <<app, arg, tab, opener, slotOf, told, foreign>>
    BY <1>7 DEF ClosedAll
  <2>2. \A k \in told : k \in Handles /\ opener[k] \in Conns
    BY DEF TypeOK, Open
  <2>3. CASE op[c] = "call_uninit"
    <3>1. \A k \in told : opener[k] # c
      BY <2>1, <2>3, NothingLeft
    <3>2. pc' = [pc EXCEPT ![c] = "gone"] /\ UNCHANGED <<op, ret>>
      BY <2>1, <2>3 DEF EndLoop
    <3>3. Held'
      BY <2>1, <2>2, <3>1, <3>2 DEF Held, TypeOK
    <3>4. CloseAllComplete'
      BY <2>1, <3>2 DEF CloseAllComplete, TypeOK
    <3> QED
      BY <3>3, <3>4
  <2>4. CASE op[c] # "call_uninit"
    <3>1. /\ pc' = [pc EXCEPT ![c] = "answer"] /\ op' = [op EXCEPT ![c] = op[c]]
          /\ ret' = [ret EXCEPT ![c] = "OK"]
      BY <2>1, <2>4 DEF EndLoop, Answer
    <3>2. Held'
      BY <2>1, <2>2, <3>1 DEF Held, TypeOK
    <3>3. CloseAllComplete'
      <4> SUFFICES ASSUME NEW d \in Conns, pc'[d] = "answer",
                          op'[d] = "C_CloseAllSessions", ret'[d] = "OK",
                          NEW k \in told, slotOf[k] = arg[d]
                   PROVE  app[opener[k]] # app[d]
        BY <2>1 DEF CloseAllComplete
      <4>1. CASE d # c
        BY <3>1, <4>1 DEF CloseAllComplete, TypeOK
      <4>2. CASE d = c
        <5>1. opener[k] # c
          BY <2>1, <4>2, NothingLeft
        <5>2. opener[k] \in Conns /\ pc[opener[k]] # "gone"
          BY <2>2 DEF Held
        <5> QED
          BY <2>1, <4>2, <5>1, <5>2 DEF OwnInv, Apart, Started
      <4> QED
        BY <4>1, <4>2
    <3> QED
      BY <3>2, <3>3
  <2> QED
    BY <2>3, <2>4
<1>8. CASE UNCHANGED vars
  BY <1>8, TidyFrame DEF vars
<1> QED
  BY <1>1, <1>2, <1>3, <1>4, <1>5, <1>6, <1>7, <1>8 DEF Next

\* A session that no thread outlives is no session of an application that left.
LEMMA TidyGiven == TypeOK /\ Held => GivenSessionsClosed
<1> SUFFICES ASSUME TypeOK, Held, NEW a \in Apps, Left(a), NEW h \in told
             PROVE  app[opener[h]] # a
  BY DEF GivenSessionsClosed
<1>1. opener[h] \in Conns
  BY DEF TypeOK, Open
<1> QED
  BY <1>1 DEF Held, Left

-----------------------------------------------------------------------------
\* The tables and the module's sessions stay well typed; in particular every
\* session the client was given and did not close is open in the module.
THEOREM TypeCorrect == Spec => []TypeOK
<1>1. Init => TypeOK
  BY TypeInit
<1> QED
  BY <1>1, TypeStep, PTL DEF Spec

\* A dispatch thread remembers every session opened on its connection until
\* it is closed, in any interleaving with threads of the same or of other
\* applications, even when the module reuses handles or fails: what
\* rpc_C_OpenSession, rpc_C_CloseSession, rpc_C_CloseAllSessions and
\* rpc_C_Finalize do to the table is enough for call_uninit to find it.
THEOREM TableRemembers == Spec => []Remembered
<1>1. Init => TypeOK /\ Remembered
  BY TypeInit DEF Init, Remembered
<1>2. TypeOK /\ Remembered /\ [Next]_vars => (TypeOK /\ Remembered)'
  BY TypeStep, RememberedStep
<1> QED
  BY <1>1, <1>2, PTL DEF Spec

\* As long as an application has one connection at a time, no dispatch thread
\* closes a session of another application: neither rpc_C_CloseAllSessions,
\* nor rpc_C_Finalize, nor call_uninit after a crash of the client, although
\* the module hands closed handles out again and may fail any call.
THEOREM ThreadsCloseTheirOwn == OneConn /\ Spec => []OwnSessionsOnly
<1> DEFINE Inv == OneConn /\ TypeOK /\ OwnInv /\ OwnSessionsOnly
<1>1. OneConn /\ Init => Inv
  BY TypeInit, OwnInit
<1>2. Inv /\ [Next]_vars => Inv'
  BY TypeStep, OwnStep, ForeignStep
<1>3. Inv => OwnSessionsOnly
  OBVIOUS
<1> QED
  BY <1>1, <1>2, <1>3, PTL DEF Spec

\* Both of the following: they share their invariant.
LEMMA ClosedAndGone ==
  OneConn /\ ~ModuleErrors /\ Spec => [](CloseAllComplete /\ GivenSessionsClosed)
<1> DEFINE Inv == OneConn /\ ~ModuleErrors /\ TidyInv
<1>1. OneConn /\ ~ModuleErrors /\ Init => Inv
  <2> SUFFICES ASSUME Init PROVE TidyInv
    OBVIOUS
  <2>1. TypeOK /\ OwnInv
    BY TypeInit, OwnInit
  <2> QED
    BY <2>1 DEF TidyInv, Init, Remembered, Held, CloseAllComplete
<1>2. Inv /\ [Next]_vars => Inv'
  BY TidyStep
<1>3. Inv => CloseAllComplete /\ GivenSessionsClosed
  BY TidyGiven DEF TidyInv
<1> QED
  BY <1>1, <1>2, <1>3, PTL DEF Spec

\* With one connection at a time and a module that fails no call for reasons
\* of its own, C_CloseAllSessions that returned CKR_OK left the application no
\* session on the slot.
THEOREM CloseAllCloses == OneConn /\ ~ModuleErrors /\ Spec => []CloseAllComplete
  BY ClosedAndGone, PTL

\* Under the same conditions call_uninit leaves an application that is gone no
\* session that it was given: "Close any open sessions. Without this, the
\* application won't be able to reconnect (possibly after a crash)."
THEOREM NothingLeftBehind == OneConn /\ ~ModuleErrors /\ Spec => []GivenSessionsClosed
  BY ClosedAndGone, PTL

=============================================================================
