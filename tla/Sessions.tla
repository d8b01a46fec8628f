------------------------------ MODULE Sessions ------------------------------
(***************************************************************************)
(* The session bookkeeping of the daemon (gck-rpc-dispatch.c).  A dispatch *)
(* thread serves one connection and remembers the sessions opened on it in *)
(* a table of its own, CallState.sessions, in order to emulate             *)
(* C_CloseAllSessions and to close what an application leaves behind when  *)
(* its connection ends (call_uninit).  The PKCS#11 module below is shared  *)
(* by all the threads: it hands out session handles and may hand out one   *)
(* again once it is closed.                                                *)
(*                                                                         *)
(* The table is private to its thread, so a step is one call of the module *)
(* together with what the thread then does to its table.                   *)
(***************************************************************************)
EXTENDS Integers, FiniteSetsExt

CONSTANTS
  Conns,         \* connections, hence dispatch threads, over the daemon's life
  Apps,          \* applications (pkcs11_app_id)
  NoApp,         \* the application id has not been read yet
  Slots,         \* slots of the PKCS#11 module
  MaxHandle,     \* session handles of the module are 1 .. MaxHandle
  MaxSessions,   \* PKCS11PROXY_MAX_SESSION_COUNT
  OneConn,       \* does an application have one connection at a time?
  ModuleErrors   \* may the module fail a call for reasons of its own?

ASSUME SessionsAssumption ==
  /\ NoApp \notin Apps /\ Slots # {}
  /\ MaxHandle \in Nat /\ MaxSessions \in Nat \ {0}
  /\ OneConn \in BOOLEAN /\ ModuleErrors \in BOOLEAN
  /\ 0 \notin Conns

VARIABLES
  app,      \* cs->appid
  pc, op, arg, ret,   \* what each dispatch thread is doing, and its result
  tab,      \* cs->sessions
  opener,   \* the module: who opened handle h, 0 when h is not open
  slotOf,   \* the module: the slot of an open session
  told,     \* open sessions whose handle was sent to the application
  foreign   \* has a thread closed a session of another application (history)

vars == <<app, pc, op, arg, ret, tab, opener, slotOf, told, foreign>>

Handles == 1 .. MaxHandle
Entries == 1 .. MaxSessions
NoSlot  == CHOOSE s \in Slots : TRUE
Empty   == [id |-> 0, slot |-> NoSlot]   \* the slot of a free entry is not read
Open    == {h \in Handles : opener[h] # 0}

\* "loop" is the loop over the table that op names; "answer" the moment the
\* response is sent.
Locations == {"none", "idle", "loop", "answer", "gone"}
Ops   == {"none", "C_OpenSession", "C_CloseSession", "C_CloseAllSessions",
          "C_Finalize", "call_uninit"}
Codes == {"OK", "SESSION_COUNT", "HANDLE_INVALID", "ERROR"}

Init ==
  /\ app = [c \in Conns |-> NoApp]
  /\ pc = [c \in Conns |-> "none"]
  /\ op = [c \in Conns |-> "none"]
  /\ arg = [c \in Conns |-> NoSlot]
  /\ ret = [c \in Conns |-> "OK"]
  /\ tab = [c \in Conns |-> [i \in Entries |-> Empty]]
  /\ opener = [h \in Handles |-> 0]
  /\ slotOf = [h \in Handles |-> NoSlot]
  /\ told = {}
  /\ foreign = FALSE

-----------------------------------------------------------------------------
(* The PKCS#11 module (a library).                                         *)

\* The results C_CloseSession(h) may have.
CloseResults(h) ==
  IF h \in Open THEN {"OK"} \cup (IF ModuleErrors THEN {"ERROR"} ELSE {})
  ELSE {"HANDLE_INVALID"}

\* The module closes h for connection c, with result r.
ModuleClose(c, h, r) ==
  IF r = "OK"
  THEN /\ opener' = [opener EXCEPT ![h] = 0]
       /\ slotOf' = [slotOf EXCEPT ![h] = NoSlot]
       /\ told' = told \ {h}
       /\ foreign' = (foreign \/ app[opener[h]] # app[c])
  ELSE UNCHANGED <<opener, slotOf, told, foreign>>

-----------------------------------------------------------------------------
(* A dispatch thread.                                                      *)

\* A response with code r to call o.
Answer(c, o, r) ==
  /\ op' = [op EXCEPT ![c] = o]
  /\ ret' = [ret EXCEPT ![c] = r]
  /\ pc' = [pc EXCEPT ![c] = "answer"]

\* run_dispatch_loop reads the application id first.
Connect(c) ==
  /\ pc[c] = "none"
  /\ \E a \in Apps :
       /\ OneConn => \A d \in Conns : app[d] = a => pc[d] = "gone"
       /\ app' = [app EXCEPT ![c] = a]
  /\ pc' = [pc EXCEPT ![c] = "idle"]
  /\ UNCHANGED <<op, arg, ret, tab, opener, slotOf, told, foreign>>

FreeEntriesAny(c) == Entries            \* mutant: the entry may be in use
FreeEntries(c)    == {i \in Entries : tab[c][i].id = 0}

\* The first free entry takes the new session.  If there is none the client
\* gets CKR_SESSION_COUNT, and the session stays open in the module.
rpc_C_OpenSession(c, s) ==
  /\ pc[c] = "idle"
  /\ \/ \E h \in Handles \ Open :
          LET free == FreeEntries(c)
          IN  /\ opener' = [opener EXCEPT ![h] = c]
              /\ slotOf' = [slotOf EXCEPT ![h] = s]
              /\ \/ /\ free # {}
                    /\ tab' = [tab EXCEPT ![c][Min(free)] = [id |-> h, slot |-> s]]
                    /\ told' = told \cup {h}
                    /\ Answer(c, "C_OpenSession", "OK")
                 \/ /\ free = {}
                    /\ Answer(c, "C_OpenSession", "SESSION_COUNT")
                    /\ UNCHANGED <<tab, told>>
     \/ /\ Open = Handles \/ ModuleErrors
        /\ Answer(c, "C_OpenSession", "ERROR")
        /\ UNCHANGED <<tab, opener, slotOf, told>>
  /\ UNCHANGED <<app, arg, foreign>>

EntriesOfButLast(c, h) == {i \in Entries : i < MaxSessions /\ tab[c][i].id = h}  \* mutant
EntriesOf(c, h)        == {i \in Entries : tab[c][i].id = h}

\* The table of c once entry i is free again.
ForgetAsMinusOne(c, i) == [tab EXCEPT ![c][i].id = -1]   \* mutant: not the mark of a free entry
Forget(c, i)           == [tab EXCEPT ![c][i] = Empty]

\* An application closes a session of its own, or one that is closed already.
\* Only success changes the table: the first entry with the handle is freed.
rpc_C_CloseSession(c, h) ==
  /\ pc[c] = "idle"
  /\ h \in told => app[opener[h]] = app[c]
  /\ h \in told \/ h \notin Open
  /\ \E r \in CloseResults(h) :
       LET mine == EntriesOf(c, h)
       IN  /\ ModuleClose(c, h, r)
           /\ tab' = IF r = "OK" /\ mine # {}
                     THEN Forget(c, Min(mine)) ELSE tab
           /\ Answer(c, "C_CloseSession", r)
  /\ UNCHANGED <<app, arg>>

\* Into the loop over the table, on behalf of o.
BeginLoop(c, o, s) ==
  /\ pc' = [pc EXCEPT ![c] = "loop"]
  /\ op' = [op EXCEPT ![c] = o]
  /\ arg' = [arg EXCEPT ![c] = s]
  /\ ret' = [ret EXCEPT ![c] = "OK"]
  /\ UNCHANGED <<app, tab, opener, slotOf, told, foreign>>

\* C_GetSlotInfo says whether the slot is valid.
rpc_C_CloseAllSessions(c, s) ==
  /\ pc[c] = "idle"
  /\ \/ BeginLoop(c, "C_CloseAllSessions", s)
     \/ /\ ModuleErrors
        /\ Answer(c, "C_CloseAllSessions", "ERROR")
        /\ UNCHANGED <<app, arg, tab, opener, slotOf, told, foreign>>

rpc_C_Finalize(c) == pc[c] = "idle" /\ BeginLoop(c, "C_Finalize", NoSlot)

\* The client closed the connection or vanished, while the thread was waiting
\* for a request or sending a response: rpc_C_Finalize runs once more.
call_uninit(c) ==
  /\ pc[c] \in {"idle", "answer"}
  /\ BeginLoop(c, "call_uninit", NoSlot)

\* mutants: the last entry is not looked at; every loop is about one slot
TodoButLast(c) ==
  {i \in Entries : /\ i < MaxSessions /\ tab[c][i].id # 0
                   /\ op[c] = "C_CloseAllSessions" => tab[c][i].slot = arg[c]}
TodoOfSlot(c) == {i \in Entries : tab[c][i].id # 0 /\ tab[c][i].slot = arg[c]}

\* What the loop still has to close.
Todo(c) ==
  {i \in Entries : /\ tab[c][i].id # 0
                   /\ op[c] = "C_CloseAllSessions" => tab[c][i].slot = arg[c]}

\* The loop is over, with code r.
EndLoop(c, r) ==
  IF op[c] = "call_uninit"
  THEN pc' = [pc EXCEPT ![c] = "gone"] /\ UNCHANGED <<op, ret>>
  ELSE Answer(c, op[c], r)

\* One turn of the loop: any failure ends it.  C_CloseAllSessions frees the
\* entry of a session the module no longer knows, rpc_C_Finalize does not.
CloseNext(c) ==
  /\ pc[c] = "loop"
  /\ Todo(c) # {}
  /\ LET i == Min(Todo(c))
         h == tab[c][i].id
     IN  \E r \in CloseResults(h) :
           /\ ModuleClose(c, h, r)
           /\ tab' = IF \/ r = "OK"
                        \/ r = "HANDLE_INVALID" /\ op[c] = "C_CloseAllSessions"
                     THEN Forget(c, i) ELSE tab
           /\ IF r = "OK" THEN UNCHANGED <<pc, op, ret>> ELSE EndLoop(c, r)
  /\ UNCHANGED <<app, arg>>

ClosedAll(c) ==
  /\ pc[c] = "loop"
  /\ Todo(c) = {}
  /\ EndLoop(c, "OK")
  /\ UNCHANGED <<app, arg, tab, opener, slotOf, told, foreign>>

\* The response has left; the thread reads the next request.
Reply(c) ==
  /\ pc[c] = "answer"
  /\ pc' = [pc EXCEPT ![c] = "idle"]
  /\ op' = [op EXCEPT ![c] = "none"]
  /\ arg' = [arg EXCEPT ![c] = NoSlot]
  /\ ret' = [ret EXCEPT ![c] = "OK"]
  /\ UNCHANGED <<app, tab, opener, slotOf, told, foreign>>

Next ==
  \E c \in Conns :
    \/ Connect(c)
    \/ \E s \in Slots : rpc_C_OpenSession(c, s) \/ rpc_C_CloseAllSessions(c, s)
    \/ \E h \in Handles : rpc_C_CloseSession(c, h)
    \/ rpc_C_Finalize(c) \/ call_uninit(c)
    \/ CloseNext(c) \/ ClosedAll(c) \/ Reply(c)

Spec == Init /\ [][Next]_vars

-----------------------------------------------------------------------------
(* Properties.                                                             *)

\* Every variable stays in its range: a free entry of the table is marked by 0
\* and nothing else, and an application is told only of sessions that are open.
TypeOK ==
  /\ app \in [Conns -> Apps \cup {NoApp}]
  /\ pc \in [Conns -> Locations]
  /\ op \in [Conns -> Ops]
  /\ arg \in [Conns -> Slots]
  /\ ret \in [Conns -> Codes]
  /\ tab \in [Conns -> [Entries -> [id : Handles \cup {0}, slot : Slots]]]
  /\ opener \in [Handles -> Conns \cup {0}]
  /\ slotOf \in [Handles -> Slots]
  /\ told \subseteq Open
  /\ foreign \in BOOLEAN

\* While a dispatch thread lives, its table lists, with the right slot, every
\* session that was opened on its connection, given to the client and not
\* closed since, whoever closes and whatever handles are reused ("Remember
\* this thread opened this session. Needed for C_CloseAllSessions.").
Remembered ==
  \A h \in told :
    pc[opener[h]] # "gone" =>
      \E i \in Entries : /\ tab[opener[h]][i].id = h
                         /\ tab[opener[h]][i].slot = slotOf[h]

\* A thread never closes a session of another application ("leaving sessions
\* opened by other applications alone even if the sessions share slot").
OwnSessionsOnly == ~foreign

\* When C_CloseAllSessions succeeds, the application has no session left on
\* the slot.
CloseAllComplete ==
  \A c \in Conns :
    pc[c] = "answer" /\ op[c] = "C_CloseAllSessions" /\ ret[c] = "OK" =>
      \A h \in told : slotOf[h] = arg[c] => app[opener[h]] # app[c]

Left(a) == /\ \E c \in Conns : app[c] = a
           /\ \A c \in Conns : app[c] = a => pc[c] = "gone"

\* An application whose connections have all ended has no session open that
\* it was given ("Close any open sessions. Without this, the application
\* won't be able to reconnect (possibly after a crash).").
GivenSessionsClosed ==
  \A a \in Apps : Left(a) => \A h \in told : app[opener[h]] # a

\* It has none open at all, be it one it was never told of.
AllSessionsClosed ==
  \A a \in Apps : Left(a) => \A h \in Open : app[opener[h]] # a

=============================================================================
