--------------------------- MODULE Sessions_proofs ---------------------------
(* Theorems about Sessions, for every set of users, devices and requests and *)
(* every overlap; and about Workers: whichever of them die and are forked    *)
(* anew, sessions come from log ins and log lines tell what happened.        *)
EXTENDS Workers, FiniteSetTheorems, TLAPS

-----------------------------------------------------------------------------
(* The inductive invariant behind TypeOK and SessionComesFromLogin.          *)

\* Nothing has been decided yet of what a request is answered with.
Undecided == {"idle", "load", "serialize", "login", "getUser", "handle"}

\* A log in whose password was right and that has not been refused.
Accepted(request) ==
    request.kind = "login" /\ request.right /\ request.status \in {200, 500}

\* What a request may rely on while it runs: the copy of its session, however
\* stale, is of a user who has logged in on it, or is being logged in.
RequestShape ==
    \A r \in Requests :
        /\ sreq[r].pc \in Undecided => sreq[r].status = 0
        /\ sreq[r].pc \in {"login", "getUser"} => sreq[r].kind = "login"
        /\ sreq[r].user # Null /\ sreq[r].pc # "failed" =>
              \/ LoggedIn(sreq[r].sid, sreq[r].user)
              \/ sreq[r].pc = "getUser" /\ sreq[r].right /\ sreq[r].target = sreq[r].user
        /\ sreq[r].pc = "getUser" => sreq[r].right /\ sreq[r].target = sreq[r].user

SessionsIInv == TypeOK /\ SessionComesFromLogin /\ RequestShape

-----------------------------------------------------------------------------
(* The inductive invariant of the calm executions of one request at a time.  *)

\* What an open request may rely on when it is the only one and nothing fails:
\* its copy is what the store has until it is saved, and a session that was found
\* is that of the device's cookie.
AloneShape(r) ==
    LET request == sreq[r]
    IN  /\ request.pc \notin {"idle", "load"} => request.sid # Null
        /\ request.pc = "load" =>
              /\ request.device \in Devices /\ request.sid = cookies[request.device]
        /\ request.pc \in OpenPcs \ {"load"} =>
              /\ request.device \in Devices
              /\ request.sid = IF request.loaded = Null THEN r ELSE cookies[request.device]
        /\ request.pc \in {"serialize", "login", "getUser", "handle", "save", "destroy"} =>
              store[request.sid] = request.loaded
        /\ request.pc \in {"serialize", "login", "handle", "destroy"} =>
              request.user = request.loaded
        /\ request.pc = "handle" => request.kind = "use"
        /\ request.pc = "getUser" =>
              request.kind = "login" /\ request.user = request.target /\ request.target # Null
        /\ request.pc = "save" =>
              \/ request.kind \in {"login", "use"} /\ request.user = request.loaded
              \/ request.kind = "login" /\ request.status = 200
        /\ request.pc = "save" /\ request.kind = "use" => request.status \in {200, 400, 500}
        /\ request.pc = "destroy" =>
              request.kind = "logout" \/ (request.kind # "login" /\ ~Passes(request.user))
        /\ request.pc \in {"save", "answer"} /\ request.kind = "login" /\ request.status = 200 =>
              request.user = request.target /\ request.target # Null
        /\ request.pc = "answer" /\ request.kind = "login" /\ request.status = 200 =>
              store[request.sid] = request.target

\* A session id is of nobody else before its request is done.
FreshId(r) ==
    sreq[r].pc # "done" =>
        /\ \A q \in Requests \ {r} : sreq[q].sid # r
        /\ \A d \in Devices : cookies[d] # r

SerialIInv ==
    /\ \A r, q \in Open : r = q
    /\ \A r \in Requests : sreq[r].pc # "failed" /\ AloneShape(r) /\ FreshId(r)
    /\ DestroyedIsGone

-----------------------------------------------------------------------------
\* A log in that has been accepted is never forgotten, if a step changes one
\* request and leaves it alone once its log in has been accepted.
LEMMA LoginsKept ==
    ASSUME NEW r \in Requests, TypeOK,
           NEW rec, sreq' = [sreq EXCEPT ![r] = rec],
           Accepted(sreq[r]) => /\ Accepted(rec)
                                /\ rec.sid = sreq[r].sid /\ rec.target = sreq[r].target
    PROVE  \A s, u : LoggedIn(s, u) => LoggedIn(s, u)'
<1>1. SUFFICES ASSUME NEW s, NEW u, LoggedIn(s, u) PROVE LoggedIn(s, u)'
  OBVIOUS
<1>2. PICK q \in Requests : /\ Accepted(sreq[q])
                            /\ sreq[q].sid = s /\ sreq[q].target = u
  BY <1>1 DEF LoggedIn, Accepted
<1>3. sreq'[q] = IF q = r THEN rec ELSE sreq[q]
  BY DEF TypeOK
<1> QED
  BY <1>2, <1>3 DEF LoggedIn, Accepted

\* SessionsIInv holds initially.
LEMMA SessionsInit ==
    Init => SessionsIInv
  BY SessionsAssumption
  DEF Init, SessionsIInv, TypeOK, SessionComesFromLogin, RequestShape, NoRequest,
      Undecided, Request, Kinds, Pcs, Statuses, SessionIds

\* What a request's next record owes to the others.
Fits(r, rec) ==
    /\ rec \in Request
    /\ Accepted(sreq[r]) => /\ Accepted(rec)
                            /\ rec.sid = sreq[r].sid /\ rec.target = sreq[r].target
    /\ rec.pc \in Undecided => rec.status = 0
    /\ rec.pc \in {"login", "getUser"} => rec.kind = "login"
    /\ rec.pc = "getUser" => rec.right /\ rec.target = rec.user
    /\ rec.user # Null /\ rec.pc \notin {"getUser", "failed"} =>
          \/ LoggedIn(rec.sid, rec.user)
          \/ Accepted(rec) /\ rec.target = rec.user

\* A step that gives one request a record that fits, and fills a session only
\* with a user who has logged in on it, keeps SessionsIInv.
LEMMA RequestStep ==
    ASSUME SessionsIInv, TypeOK',
           \A s \in SessionIds : store'[s] \in {store[s], Null} \/ LoggedIn(s, store'[s]),
           NEW r \in Requests, NEW rec, Fits(r, rec), sreq' = [sreq EXCEPT ![r] = rec]
    PROVE  SessionsIInv'
<1>1. \A s, u : LoggedIn(s, u) => LoggedIn(s, u)'
  BY LoginsKept DEF SessionsIInv, Fits
<1>2. \A q \in Requests : sreq'[q] = IF q = r THEN rec ELSE sreq[q]
  BY DEF SessionsIInv, TypeOK
<1>3. SessionComesFromLogin'
  BY <1>1 DEF SessionsIInv, SessionComesFromLogin
<1>4. rec.user # Null /\ rec.pc \notin {"getUser", "failed"} => LoggedIn(rec.sid, rec.user)'
  BY <1>1, <1>2 DEF LoggedIn, Fits, Accepted
<1>5. RequestShape'
  BY <1>1, <1>2, <1>4 DEF SessionsIInv, RequestShape, Fits
<1> QED
  BY <1>3, <1>5 DEF SessionsIInv

\* What is received is a log in, a log out or another request of a device.
LEMMA ReceivesOne ==
    ASSUME Receives
    PROVE  \E r \in Requests, d \in Devices, kind \in {"login", "use", "logout"},
              target \in Users \cup {Null}, right \in BOOLEAN :
              Receive(r, d, kind, target, right)
  BY DEF Receives

\* A new request has no session copy yet.
LEMMA ReceiveStep ==
    ASSUME SessionsIInv, Receives
    PROVE  SessionsIInv'
<1>1. PICK r \in Requests, d \in Devices, kind \in {"login", "use", "logout"},
           target \in Users \cup {Null}, right \in BOOLEAN :
           Receive(r, d, kind, target, right)
  BY ReceivesOne
<1> DEFINE rec == [NoRequest EXCEPT
                      !.kind = kind, !.pc = "load", !.device = d,
                      !.sid = cookies[d], !.target = target, !.right = right]
<1>2. sreq' = [sreq EXCEPT ![r] = rec] /\ UNCHANGED <<store, cookies, active>>
  BY <1>1 DEF Receive
<1>3. cookies[d] \in SessionIds \cup {Null}
  BY DEF SessionsIInv, TypeOK
<1>4. rec \in Request
  <2>1. {"none", kind} \subseteq Kinds /\ {"idle", "load"} \subseteq Pcs /\ 0 \in Statuses
    BY DEF Kinds, Pcs, OpenPcs, Statuses
  <2>2. NoRequest \in Request
    BY <2>1 DEF NoRequest, Request
  <2> QED
    BY <1>3, <2>1, <2>2 DEF Request
<1>5. sreq[r].status = 0
  BY <1>1 DEF Receive, SessionsIInv, RequestShape, Undecided
<1>6. Fits(r, rec)
  BY <1>4, <1>5 DEF Fits, NoRequest, Accepted, Undecided
<1> HIDE DEF rec
<1>7. TypeOK'
  BY <1>2, <1>4 DEF SessionsIInv, TypeOK
<1> QED
  BY RequestStep, <1>2, <1>6, <1>7

\* The copy is what the store has for the session.
LEMMA LoadStep ==
    ASSUME SessionsIInv, NEW r \in Requests, LoadSession(r)
    PROVE  SessionsIInv'
<1> DEFINE sid == sreq[r].sid
           found == IF sid = Null THEN Null ELSE store[sid]
           rec == [sreq[r] EXCEPT !.pc = "serialize",
                                  !.sid = IF found = Null THEN r ELSE sid,
                                  !.loaded = found, !.user = found]
<1>1. sreq[r] \in Request /\ sid \in SessionIds \cup {Null}
  BY DEF SessionsIInv, TypeOK, Request
<1>2. found \in Users \cup {Null}
  BY <1>1 DEF SessionsIInv, TypeOK
<1>3. sreq' = [sreq EXCEPT ![r] = rec] /\ UNCHANGED <<store, cookies, active>>
  BY DEF LoadSession
<1>4. sreq[r].status = 0
  BY DEF LoadSession, SessionsIInv, RequestShape, Undecided
<1>5. found # Null => LoggedIn(sid, found)
  BY <1>1 DEF SessionsIInv, SessionComesFromLogin
<1> HIDE DEF found
<1>6. rec \in Request
  <2>1. "serialize" \in Pcs /\ r \in SessionIds
    BY DEF Pcs, OpenPcs, SessionIds
  <2>2. (IF found = Null THEN r ELSE sid) \in SessionIds \cup {Null}
    BY <1>1, <2>1
  <2> QED
    BY <1>1, <1>2, <2>1, <2>2 DEF Request
<1>7. Fits(r, rec)
  BY <1>1, <1>4, <1>5, <1>6 DEF Fits, Accepted, Undecided, Request
<1> HIDE DEF rec
<1>8. TypeOK'
  BY <1>3, <1>6 DEF SessionsIInv, TypeOK
<1> QED
  BY RequestStep, <1>3, <1>7, <1>8

\* A request that goes on, decided or not, keeps all but its pc, its status and
\* whether it has got to its handler.
LEMMA EndRecord ==
    ASSUME NEW r \in Requests, sreq[r] \in Request, NEW pc \in Pcs, NEW status \in Statuses,
           End(r, pc, status) \/ Begin(r, pc, status)
    PROVE  \E rec \in Request :
              /\ rec.pc = pc /\ rec.status = status
              /\ rec.kind = sreq[r].kind /\ rec.sid = sreq[r].sid
              /\ rec.target = sreq[r].target /\ rec.right = sreq[r].right
              /\ rec.user = sreq[r].user
              /\ sreq' = [sreq EXCEPT ![r] = rec]
<1> DEFINE Same(rec) == /\ rec.pc = pc /\ rec.status = status
                        /\ rec.kind = sreq[r].kind /\ rec.sid = sreq[r].sid
                        /\ rec.target = sreq[r].target /\ rec.right = sreq[r].right
                        /\ rec.user = sreq[r].user
           ended == [sreq[r] EXCEPT !.pc = pc, !.status = status]
           begun == [sreq[r] EXCEPT !.pc = pc, !.status = status, !.handled = TRUE]
<1>1. {ended, begun} \subseteq Request /\ Same(ended) /\ Same(begun)
  BY ZenonT(40) DEF Request
<1>2. sreq' = [sreq EXCEPT ![r] = ended] \/ sreq' = [sreq EXCEPT ![r] = begun]
  BY Zenon DEF End, Begin
<1> HIDE DEF ended, begun
<1> QED
  BY <1>1, <1>2

\* A request that is moved on with its copy as it was.
LEMMA MoveOn ==
    ASSUME SessionsIInv, NEW r \in Requests, sreq[r].pc \in Undecided,
           NEW pc \in Pcs \ {"getUser"}, NEW status \in Statuses,
           pc \in Undecided => status = 0,
           pc = "login" => sreq[r].kind = "login",
           sreq[r].pc = "getUser" => pc = "save" /\ status \in {200, 500},
           End(r, pc, status) \/ Begin(r, pc, status), UNCHANGED <<store, cookies, active>>
    PROVE  SessionsIInv'
<1>1. sreq[r] \in Request
  BY DEF SessionsIInv, TypeOK
<1>2. PICK rec \in Request :
              /\ rec.pc = pc /\ rec.status = status
              /\ rec.kind = sreq[r].kind /\ rec.sid = sreq[r].sid
              /\ rec.target = sreq[r].target /\ rec.right = sreq[r].right
              /\ rec.user = sreq[r].user
              /\ sreq' = [sreq EXCEPT ![r] = rec]
  BY <1>1, EndRecord
<1>3. /\ sreq[r].status = 0 /\ sreq[r].pc # "failed"
      /\ sreq[r].pc = "getUser" => /\ sreq[r].kind = "login" /\ sreq[r].right
                                   /\ sreq[r].target = sreq[r].user
      /\ sreq[r].user # Null /\ sreq[r].pc # "getUser" => LoggedIn(sreq[r].sid, sreq[r].user)
  BY DEF SessionsIInv, RequestShape, Undecided
<1>4. Fits(r, rec)
  <2>1. ~Accepted(sreq[r])
    BY <1>3 DEF Accepted
  <2>2. CASE sreq[r].pc = "getUser"
    BY <1>2, <1>3, <2>1, <2>2 DEF Fits, Accepted, Undecided
  <2>3. CASE sreq[r].pc # "getUser"
    BY <1>2, <1>3, <2>1, <2>3 DEF Fits
  <2> QED
    BY <2>2, <2>3
<1>5. TypeOK'
  BY <1>2 DEF SessionsIInv, TypeOK
<1> QED
  BY RequestStep, <1>2, <1>4, <1>5

\* The serializer and the guard only move the request on.
LEMMA SerializeStep ==
    ASSUME SessionsIInv, NEW r \in Requests, Serialize(r)
    PROVE  SessionsIInv'
<1>1. UNCHANGED <<store, cookies, active>>
  BY DEF Serialize
<1>2. \/ sreq[r].kind = "login" /\ Begin(r, "login", 0)
      \/ Begin(r, "handle", 0) \/ Begin(r, "destroy", 200) \/ End(r, "destroy", 401)
  BY Zenon DEF Serialize
<1>3. {"login", "handle", "destroy"} \subseteq Pcs /\ {0, 200, 401} \subseteq Statuses
  BY DEF Pcs, OpenPcs, Statuses
<1>4. sreq[r].pc = "serialize" /\ sreq[r].pc \in Undecided
  BY DEF Serialize, Undecided
<1>5. "destroy" \notin Undecided
  BY DEF Undecided
<1>6. CASE sreq[r].kind = "login" /\ Begin(r, "login", 0)
  BY <1>1, <1>3, <1>4, <1>6, MoveOn
<1>7. CASE Begin(r, "handle", 0)
  BY <1>1, <1>3, <1>4, <1>7, MoveOn
<1>8. CASE Begin(r, "destroy", 200)
  BY <1>1, <1>3, <1>4, <1>5, <1>8, MoveOn
<1>9. CASE End(r, "destroy", 401)
  BY <1>1, <1>3, <1>4, <1>5, <1>9, MoveOn
<1> QED
  BY <1>2, <1>6, <1>7, <1>8, <1>9

\* A guarded handler, and the last query of a log in, decide what is answered.
LEMMA HandleStep ==
    ASSUME SessionsIInv, NEW r \in Requests, Handle(r) \/ GetUser(r)
    PROVE  SessionsIInv'
<1>1. UNCHANGED <<store, cookies, active>> /\ sreq[r].pc \in {"handle", "getUser"}
  BY DEF Handle, GetUser
<1>2. PICK status \in {200, 400, 500} :
          End(r, "save", status) /\ (sreq[r].pc = "getUser" => status = 200)
  BY ZenonT(30) DEF Handle, GetUser
<1>3. "save" \in Pcs /\ status \in Statuses
  BY DEF Pcs, OpenPcs, Statuses
<1>4. "save" \notin Undecided /\ sreq[r].pc \in Undecided
  BY <1>1 DEF Undecided
<1> QED
  BY <1>1, <1>2, <1>3, <1>4, MoveOn

\* Only a log in that is accepted gives the copy a user.
LEMMA LoginStep ==
    ASSUME SessionsIInv, NEW r \in Requests, Login(r)
    PROVE  SessionsIInv'
<1> DEFINE status == LoginStatus(sreq[r])
           rec == [sreq[r] EXCEPT !.pc = "getUser", !.user = sreq[r].target]
<1>1. sreq[r] \in Request /\ UNCHANGED <<store, cookies, active>> /\ sreq[r].pc = "login"
  BY DEF SessionsIInv, TypeOK, Login
<1>2. {"save", "getUser"} \subseteq Pcs /\ status \in Statuses
  BY DEF LoginStatus, Pcs, OpenPcs, Statuses
<1>3. /\ sreq[r].pc \in Undecided /\ "save" \notin Undecided
      /\ sreq[r].status = 0 /\ sreq[r].kind = "login"
  BY <1>1 DEF SessionsIInv, RequestShape, Undecided
<1>4. CASE status # 200
  <2>1. End(r, "save", status)
    BY <1>4, Zenon DEF Login
  <2> HIDE DEF status
  <2> QED
    BY <1>1, <1>2, <1>3, <2>1, MoveOn
<1>5. CASE status = 200
  <2>1. sreq' = [sreq EXCEPT ![r] = rec]
    BY <1>5, Zenon DEF Login
  <2>2. sreq[r].right
    BY <1>5 DEF LoginStatus
  <2>3. /\ rec \in Request /\ rec.pc = "getUser" /\ rec.kind = "login" /\ rec.status = 0
        /\ rec.right /\ rec.target = rec.user
    BY <1>1, <1>2, <1>3, <2>2 DEF Request
  <2> HIDE DEF rec
  <2>4. Fits(r, rec)
    BY <1>3, <2>3 DEF Fits, Accepted
  <2>5. TypeOK'
    BY <1>1, <2>1, <2>3 DEF SessionsIInv, TypeOK
  <2> QED
    BY RequestStep, <1>1, <2>1, <2>4, <2>5
<1> QED
  BY <1>4, <1>5

\* A request that ends, or nearly, may forget its device and its copy.
LEMMA EndTypes ==
    ASSUME NEW q \in Request, NEW pc \in Pcs
    PROVE  /\ [q EXCEPT !.pc = pc] \in Request
           /\ [q EXCEPT !.pc = pc, !.user = Null] \in Request
           /\ [q EXCEPT !.pc = pc, !.device = Null, !.loaded = Null, !.user = Null]
                  \in Request
  BY DEF Request

\* ... and keeps SessionsIInv when it does.
LEMMA EndStep ==
    ASSUME SessionsIInv, NEW r \in Requests, NEW rec \in Request,
           rec.pc \in {"answer", "done", "failed"},
           rec.kind = sreq[r].kind, rec.sid = sreq[r].sid,
           rec.target = sreq[r].target, rec.status = sreq[r].status,
           rec.right = sreq[r].right, rec.user \in {sreq[r].user, Null},
           sreq[r].pc \in {"save", "destroy", "answer"} \/ rec.pc = "failed",
           sreq' = [sreq EXCEPT ![r] = rec],
           store' \in [SessionIds -> Users \cup {Null}],
           \A s \in SessionIds : store'[s] \in {store[s], Null} \/ LoggedIn(s, store'[s]),
           cookies' \in [Devices -> SessionIds \cup {Null}],
           active' = active
    PROVE  SessionsIInv'
<1>1. sreq[r].user # Null /\ rec.pc # "failed" => LoggedIn(sreq[r].sid, sreq[r].user)
  BY DEF SessionsIInv, RequestShape
<1>2. Fits(r, rec)
  BY <1>1 DEF Fits, Accepted, Undecided
<1>3. TypeOK'
  BY DEF SessionsIInv, TypeOK
<1> QED
  BY <1>2, <1>3, RequestStep

\* What is saved is the copy.
LEMMA SaveStep ==
    ASSUME SessionsIInv, NEW r \in Requests, SaveSession(r)
    PROVE  SessionsIInv'
<1> DEFINE rec == [sreq[r] EXCEPT !.pc = "answer"]
<1>1. sreq[r] \in Request /\ "answer" \in Pcs
  BY DEF SessionsIInv, TypeOK, Pcs, OpenPcs
<1>2. rec \in Request
  BY <1>1, EndTypes
<1>3. /\ rec.pc = "answer" /\ rec.kind = sreq[r].kind /\ rec.sid = sreq[r].sid
      /\ rec.right = sreq[r].right
      /\ rec.target = sreq[r].target /\ rec.status = sreq[r].status
      /\ rec.user = sreq[r].user
  BY <1>1 DEF Request
<1>4. sreq' = [sreq EXCEPT ![r] = rec]
  BY Zenon DEF SaveSession, Goto
<1> HIDE DEF rec
<1>5. store' = store \/ store' = [store EXCEPT ![sreq[r].sid] = sreq[r].user]
  BY DEF SaveSession
<1>6. /\ sreq[r].user \in Users \cup {Null}
      /\ sreq[r].user = Null \/ LoggedIn(sreq[r].sid, sreq[r].user)
  BY <1>1 DEF SessionsIInv, RequestShape, Request, SaveSession
<1>7. /\ store' \in [SessionIds -> Users \cup {Null}]
      /\ \A s \in SessionIds : store'[s] \in {store[s], Null} \/ LoggedIn(s, store'[s])
  BY <1>5, <1>6 DEF SessionsIInv, TypeOK
<1> QED
  BY <1>2, <1>3, <1>4, <1>7, EndStep DEF SaveSession, SessionsIInv, TypeOK

\* A destroyed session is of nobody.
LEMMA DestroyStep ==
    ASSUME SessionsIInv, NEW r \in Requests, DestroySession(r)
    PROVE  SessionsIInv'
<1> DEFINE rec == [sreq[r] EXCEPT !.pc = "answer", !.user = Null]
<1>1. sreq[r] \in Request /\ "answer" \in Pcs
  BY DEF SessionsIInv, TypeOK, Pcs, OpenPcs
<1>2. rec \in Request
  BY <1>1, EndTypes
<1>3. /\ rec.pc = "answer" /\ rec.kind = sreq[r].kind /\ rec.sid = sreq[r].sid
      /\ rec.right = sreq[r].right
      /\ rec.target = sreq[r].target /\ rec.status = sreq[r].status /\ rec.user = Null
  BY <1>1 DEF Request
<1>4. sreq' = [sreq EXCEPT ![r] = rec] /\ store' = [store EXCEPT ![sreq[r].sid] = Null]
  BY Zenon DEF DestroySession
<1> HIDE DEF rec
<1>5. /\ store' \in [SessionIds -> Users \cup {Null}]
      /\ \A s \in SessionIds : store'[s] \in {store[s], Null}
  BY <1>4 DEF SessionsIInv, TypeOK
<1> QED
  BY <1>2, <1>3, <1>4, <1>5, EndStep DEF DestroySession, SessionsIInv, TypeOK

\* An answer leaves the store alone.
LEMMA AnswerStep ==
    ASSUME SessionsIInv, NEW r \in Requests, Answer(r)
    PROVE  SessionsIInv'
<1> DEFINE rec == [sreq[r] EXCEPT !.pc = "done", !.device = Null,
                                  !.loaded = Null, !.user = Null]
<1>1. sreq[r] \in Request /\ "done" \in Pcs
  BY DEF SessionsIInv, TypeOK, Pcs
<1>2. rec \in Request
  BY <1>1, EndTypes
<1>3. /\ rec.pc = "done" /\ rec.kind = sreq[r].kind /\ rec.sid = sreq[r].sid
      /\ rec.right = sreq[r].right
      /\ rec.target = sreq[r].target /\ rec.status = sreq[r].status /\ rec.user = Null
  BY <1>1 DEF Request
<1>4. sreq' = [sreq EXCEPT ![r] = rec]
  BY Zenon DEF Answer
<1> HIDE DEF rec
<1>5. \/ cookies' = cookies
      \/ cookies' = [cookies EXCEPT ![sreq[r].device] = Null]
      \/ cookies' = [cookies EXCEPT ![sreq[r].device] = sreq[r].sid]
  BY DEF Answer
<1>6. sreq[r].sid \in SessionIds \cup {Null}
  BY <1>1 DEF Request
<1>7. cookies' \in [Devices -> SessionIds \cup {Null}]
  BY <1>5, <1>6 DEF SessionsIInv, TypeOK
<1> QED
  BY <1>2, <1>3, <1>4, <1>7, EndStep DEF Answer, SessionsIInv, TypeOK

\* A failing query or call of Redis moves the request on without a write.
LEMMA FailStep ==
    ASSUME SessionsIInv, NEW r \in Requests, Fail(r)
    PROVE  SessionsIInv'
<1>1. sreq[r] \in Request /\ {"save", "answer"} \subseteq Pcs /\ 500 \in Statuses
  BY DEF SessionsIInv, TypeOK, Pcs, OpenPcs, Statuses
<1>2. /\ UNCHANGED <<store, cookies, active>>
      /\ \/ sreq[r].pc \in {"serialize", "login", "getUser"} /\ End(r, "save", 500)
         \/ sreq[r].pc = "save" /\ Goto(r, "answer")
         \/ /\ sreq[r].pc = "destroy"
            /\ sreq' = [sreq EXCEPT ![r] = [sreq[r] EXCEPT !.pc = "answer", !.user = Null]]
  BY Zenon DEF Fail
<1>3. CASE sreq[r].pc \in {"serialize", "login", "getUser"} /\ End(r, "save", 500)
  <2>1. sreq[r].pc \in Undecided /\ "save" \notin Undecided
    BY <1>3 DEF Undecided
  <2> QED
    BY <1>1, <1>2, <1>3, <2>1, MoveOn
<1>4. CASE sreq[r].pc = "save" /\ Goto(r, "answer")
  <2> DEFINE rec == [sreq[r] EXCEPT !.pc = "answer"]
  <2>1. rec \in Request
    BY <1>1, EndTypes
  <2>2. /\ rec.pc = "answer" /\ rec.kind = sreq[r].kind /\ rec.sid = sreq[r].sid
        /\ rec.right = sreq[r].right
        /\ rec.target = sreq[r].target /\ rec.status = sreq[r].status
        /\ rec.user = sreq[r].user
    BY <1>1 DEF Request
  <2>3. sreq' = [sreq EXCEPT ![r] = rec]
    BY <1>4, Zenon DEF Goto
  <2> HIDE DEF rec
  <2> QED
    BY <1>2, <1>4, <2>1, <2>2, <2>3, EndStep DEF SessionsIInv, TypeOK
<1>5. CASE /\ sreq[r].pc = "destroy"
           /\ sreq' = [sreq EXCEPT ![r] = [sreq[r] EXCEPT !.pc = "answer", !.user = Null]]
  <2> DEFINE rec == [sreq[r] EXCEPT !.pc = "answer", !.user = Null]
  <2>1. rec \in Request
    BY <1>1, EndTypes
  <2>2. /\ rec.pc = "answer" /\ rec.kind = sreq[r].kind /\ rec.sid = sreq[r].sid
        /\ rec.right = sreq[r].right
        /\ rec.target = sreq[r].target /\ rec.status = sreq[r].status /\ rec.user = Null
    BY <1>1 DEF Request
  <2>3. sreq' = [sreq EXCEPT ![r] = rec]
    BY <1>5
  <2> HIDE DEF rec
  <2> QED
    BY <1>2, <1>5, <2>1, <2>2, <2>3, EndStep DEF SessionsIInv, TypeOK
<1> QED
  BY <1>2, <1>3, <1>4, <1>5

\* A request that stops leaves everything as it is.
LEMMA AbortStep ==
    ASSUME SessionsIInv, NEW r \in Requests, Abort(r)
    PROVE  SessionsIInv'
<1> DEFINE rec == [sreq[r] EXCEPT !.pc = "failed"]
<1>1. sreq[r] \in Request /\ "failed" \in Pcs
  BY DEF SessionsIInv, TypeOK, Pcs
<1>2. rec \in Request
  BY <1>1, EndTypes
<1>3. /\ rec.pc = "failed" /\ rec.kind = sreq[r].kind /\ rec.sid = sreq[r].sid
      /\ rec.right = sreq[r].right
      /\ rec.target = sreq[r].target /\ rec.status = sreq[r].status
      /\ rec.user = sreq[r].user
  BY <1>1 DEF Request
<1>4. sreq' = [sreq EXCEPT ![r] = rec]
  BY Zenon DEF Abort, Goto
<1> HIDE DEF rec
<1> QED
  BY <1>2, <1>3, <1>4, EndStep DEF Abort, SessionsIInv, TypeOK

\* Administrators and Redis only take away.
LEMMA EnvironmentStep ==
    ASSUME SessionsIInv,
           \/ \E x \in Users \cup Organisations : Deactivate(x)
           \/ \E s \in SessionIds : Expire(s)
    PROVE  SessionsIInv'
<1>1. /\ UNCHANGED sreq /\ UNCHANGED cookies
      /\ active' \subseteq active
      /\ store' \in [SessionIds -> Users \cup {Null}]
      /\ \A s \in SessionIds : store'[s] \in {store[s], Null}
  BY DEF Deactivate, Expire, SessionsIInv, TypeOK
<1> QED
  BY <1>1 DEF SessionsIInv, TypeOK, SessionComesFromLogin, RequestShape, LoggedIn

\* What holds of every request and every session in every reachable state:
\* a copy of a session, and a session in the store, is of one who has logged in.
THEOREM SessionsInvariant ==
    Spec => []SessionsIInv
<1>1. Init => SessionsIInv
  BY SessionsInit
<1>2. SessionsIInv /\ [Next]_vars => SessionsIInv'
  <2> SUFFICES ASSUME SessionsIInv, [Next]_vars PROVE SessionsIInv'
    OBVIOUS
  <2>1. CASE Receives
    BY <2>1, ReceiveStep
  <2>2. ASSUME NEW r \in Requests, Step(r) PROVE SessionsIInv'
    BY <2>2, LoadStep, SerializeStep, LoginStep, HandleStep, SaveStep, DestroyStep, AnswerStep
    DEF Step
  <2>3. ASSUME NEW r \in Requests, Fail(r) \/ Abort(r) PROVE SessionsIInv'
    BY <2>3, FailStep, AbortStep
  <2>4. CASE Deactivates \/ \E s \in SessionIds : Expire(s)
    BY <2>4, EnvironmentStep DEF Deactivates
  <2>5. CASE UNCHANGED vars
    BY <2>5 DEF vars, SessionsIInv, TypeOK, SessionComesFromLogin, RequestShape, LoggedIn
  <2> QED
    BY <2>1, <2>2, <2>3, <2>4, <2>5 DEF Next
<1> QED
  BY <1>1, <1>2, PTL DEF Spec

\* Sessions, cookies and requests keep their types.
THEOREM SessionsTypeCorrect ==
    Spec => []TypeOK
<1>1. SessionsIInv => TypeOK
  BY DEF SessionsIInv
<1> QED
  BY <1>1, SessionsInvariant, PTL

\* However many requests of however many devices overlap, fail or write stale
\* copies back, and whatever Redis drops: no session is anybody's who has not
\* logged in on it (authentication.controller.ts:40, session.middleware.ts:16).
THEOREM SessionComesFromLoginAlways ==
    Spec => []SessionComesFromLogin
<1>1. SessionsIInv => SessionComesFromLogin
  BY DEF SessionsIInv
<1> QED
  BY <1>1, SessionsInvariant, PTL

-----------------------------------------------------------------------------
(* One request at a time, and nothing fails: SerialIInv is inductive relative *)
(* to SessionsIInv.                                                          *)

\* A request that is received finds no other.
LEMMA NoneOpen ==
    ASSUME MaxOverlap = 1, \A r, q \in Open : r = q, Cardinality(Open) < MaxOverlap
    PROVE  Open = {}
<1> SUFFICES ASSUME NEW r \in Open PROVE FALSE
  OBVIOUS
<1>1. Open = {r}
  OBVIOUS
<1>2. Cardinality(Open) = 1
  BY <1>1, FS_Singleton
<1> QED
  BY <1>2

\* DestroyedIsGone of one request.
Gone(r) ==
    /\ sreq[r].pc \in {"answer", "done"}
    /\ \/ sreq[r].kind = "logout" /\ sreq[r].status = 200
       \/ sreq[r].kind # "login" /\ sreq[r].status = 401
    => store[sreq[r].sid] = Null

\* A step of the one request that is open, or becomes so: what is left to show
\* is about the request itself, what it stores and the cookie it gives.
LEMMA AloneStep ==
    ASSUME SerialIInv, NEW r \in Requests, Open \subseteq {r}, sreq[r].pc # "done",
           \A q \in Requests : q # r => sreq'[q] = sreq[q],
           \A s \in SessionIds : \/ store'[s] \in {store[s], Null}
                                 \/ s = sreq[r].sid /\ (s = r \/ store[s] # Null),
           \A q \in Requests : sreq[q].sid \in SessionIds \cup {Null},
           \A d \in Devices :
               \/ cookies'[d] \in {cookies[d], Null}
               \/ cookies'[d] = sreq[r].sid /\ sreq'[r].pc = "done",
           \/ sreq'[r].sid \in {sreq[r].sid, r}
           \/ \E d \in Devices : sreq'[r].sid = cookies[d],
           sreq'[r].pc # "failed", AloneShape(r)', Gone(r)'
    PROVE  SerialIInv'
<1>1. ASSUME NEW q \in Requests, q # r
      PROVE  sreq[q].pc \notin OpenPcs /\ sreq'[q] = sreq[q]
  BY <1>1 DEF Open
<1>2. \A p, q \in Open' : p = q
  BY <1>1 DEF Open
<1>3. ASSUME NEW q \in Requests PROVE AloneShape(q)'
  <2> SUFFICES ASSUME q # r PROVE AloneShape(q)'
    OBVIOUS
  <2> QED
    BY <1>1 DEF SerialIInv, AloneShape, OpenPcs
<1>4. ASSUME NEW q \in Requests PROVE FreshId(q)'
  <2> SUFFICES ASSUME sreq'[q].pc # "done"
               PROVE  /\ \A p \in Requests \ {q} : sreq'[p].sid # q
                      /\ \A d \in Devices : cookies'[d] # q
    BY DEF FreshId
  <2>1. FreshId(q) /\ sreq[q].pc # "done"
    BY <1>1 DEF SerialIInv
  <2>2. q \in Requests /\ q # Null
    BY SessionsAssumption
  <2>3. ASSUME NEW d \in Devices PROVE cookies'[d] # q
    BY <2>1, <2>2 DEF FreshId
  <2>4. ASSUME NEW p \in Requests, p # q PROVE sreq'[p].sid # q
    BY <1>1, <2>1, <2>2, <2>4 DEF FreshId
  <2> QED
    BY <2>3, <2>4
<1>5. ASSUME NEW q \in Requests PROVE sreq'[q].pc # "failed" /\ Gone(q)'
  <2> SUFFICES ASSUME q # r PROVE sreq'[q].pc # "failed" /\ Gone(q)'
    OBVIOUS
  <2>1. sreq'[q] = sreq[q] /\ sreq[q].pc # "failed" /\ Gone(q) /\ FreshId(r)
    BY <1>1 DEF SerialIInv, DestroyedIsGone, Gone
  <2>2. sreq[q].sid # r
    BY <2>1 DEF FreshId
  <2>3. /\ sreq[q].pc \in {"answer", "done"} => sreq[q].sid \in SessionIds
        /\ sreq[q].sid \in SessionIds /\ store[sreq[q].sid] = Null => store'[sreq[q].sid] = Null
    BY <2>2 DEF SerialIInv, AloneShape
  <2> QED
    BY <2>1, <2>3 DEF Gone
<1>6. DestroyedIsGone'
  BY <1>5 DEF DestroyedIsGone, Gone
<1> QED
  BY <1>2, <1>3, <1>4, <1>5, <1>6 DEF SerialIInv

\* The same for a request that has been received.
LEMMA OpenStep ==
    ASSUME SessionsIInv, SerialIInv, NEW r \in Requests, sreq[r].pc \in OpenPcs,
           \A q \in Requests : q # r => sreq'[q] = sreq[q],
           \A s \in SessionIds : \/ store'[s] \in {store[s], Null}
                                 \/ s = sreq[r].sid /\ (s = r \/ store[s] # Null),
           \A d \in Devices :
               \/ cookies'[d] \in {cookies[d], Null}
               \/ cookies'[d] = sreq[r].sid /\ sreq'[r].pc = "done",
           sreq'[r].sid \in {sreq[r].sid, r},
           sreq'[r].pc # "failed", AloneShape(r)', Gone(r)'
    PROVE  SerialIInv'
<1>1. Open \subseteq {r} /\ sreq[r].pc # "done"
  BY DEF SerialIInv, Open, OpenPcs
<1>2. \A q \in Requests : sreq[q].sid \in SessionIds \cup {Null}
  BY DEF SessionsIInv, TypeOK, Request
<1> QED
  BY <1>1, <1>2, AloneStep

\* A session id that no other request has used is of no session yet.
LEMMA FreshIsEmpty ==
    ASSUME SessionsIInv, SerialIInv, NEW r \in Requests,
           sreq[r].pc \in Undecided
    PROVE  store[r] = Null
<1> SUFFICES ASSUME store[r] # Null PROVE FALSE
  OBVIOUS
<1>1. PICK q \in Requests : sreq[q].status \in {200, 500} /\ sreq[q].sid = r
  BY DEF SessionsIInv, SessionComesFromLogin, LoggedIn, SessionIds
<1>2. sreq[r].status = 0
  BY DEF SessionsIInv, RequestShape
<1>3. FreshId(r)
  BY DEF SerialIInv
<1> QED
  BY <1>1, <1>2, <1>3 DEF FreshId, Undecided

LEMMA AloneReceive ==
    ASSUME MaxOverlap = 1, SessionsIInv, SerialIInv, Receives
    PROVE  SerialIInv'
<1>1. PICK r \in Requests, d \in Devices, kind \in {"login", "use", "logout"},
           target \in Users \cup {Null}, right \in BOOLEAN :
           Receive(r, d, kind, target, right)
  BY ReceivesOne
<1> DEFINE rec == [NoRequest EXCEPT
                      !.kind = kind, !.pc = "load", !.device = d,
                      !.sid = cookies[d], !.target = target, !.right = right]
<1>2. /\ sreq' = [sreq EXCEPT ![r] = rec] /\ sreq[r].pc = "idle"
      /\ UNCHANGED <<store, cookies, active>> /\ Cardinality(Open) < MaxOverlap
  BY <1>1 DEF Receive
<1>3. Open = {}
  BY <1>2, NoneOpen DEF SerialIInv
<1>4. rec.pc = "load" /\ rec.device = d /\ rec.sid = cookies[d]
  BY DEF NoRequest
<1> HIDE DEF rec
<1>5. sreq'[r] = rec /\ \A q \in Requests : q # r => sreq'[q] = sreq[q]
  BY <1>2 DEF SessionsIInv, TypeOK
<1>6. AloneShape(r)' /\ Gone(r)'
  BY <1>2, <1>4, <1>5 DEF AloneShape, Gone
<1>7. \A q \in Requests : sreq[q].sid \in SessionIds \cup {Null}
  BY DEF SessionsIInv, TypeOK, Request
<1> QED
  BY <1>2, <1>3, <1>4, <1>5, <1>6, <1>7, AloneStep

LEMMA AloneLoad ==
    ASSUME SessionsIInv, SerialIInv, NEW r \in Requests, LoadSession(r)
    PROVE  SerialIInv'
<1> DEFINE sid == sreq[r].sid
           found == IF sid = Null THEN Null ELSE store[sid]
<1>1. sreq[r] \in Request /\ sreq[r].pc = "load" /\ sid \in SessionIds \cup {Null}
  BY DEF SessionsIInv, TypeOK, Request, LoadSession
<1>2. /\ sreq' = [sreq EXCEPT ![r] = [sreq[r] EXCEPT
                    !.pc = "serialize", !.sid = IF found = Null THEN r ELSE sid,
                    !.loaded = found, !.user = found]]
      /\ UNCHANGED <<store, cookies, active>>
  BY DEF LoadSession
<1>3. /\ sreq'[r].pc = "serialize" /\ sreq'[r].device = sreq[r].device
      /\ sreq'[r].sid = (IF found = Null THEN r ELSE sid)
      /\ sreq'[r].loaded = found /\ sreq'[r].user = found
      /\ \A q \in Requests : q # r => sreq'[q] = sreq[q]
  BY <1>1, <1>2 DEF SessionsIInv, TypeOK, Request
<1>4. sreq[r].device \in Devices /\ sid = cookies[sreq[r].device]
  BY <1>1 DEF SerialIInv, AloneShape
<1>5. store[r] = Null
  BY <1>1, FreshIsEmpty DEF Undecided
<1>6. r # Null /\ (found # Null => sid # Null)
  BY SessionsAssumption
<1>7. store[sreq'[r].sid] = found
  BY <1>3, <1>5
<1> HIDE DEF found
<1>8. AloneShape(r)' /\ Gone(r)'
  BY <1>2, <1>3, <1>4, <1>6, <1>7 DEF AloneShape, Gone
<1> QED
  BY <1>1, <1>2, <1>3, <1>8, OpenStep DEF OpenPcs

LEMMA AloneSerialize ==
    ASSUME SessionsIInv, SerialIInv, NEW r \in Requests, Serialize(r)
    PROVE  SerialIInv'
<1>1. /\ sreq[r] \in Request /\ sreq[r].pc = "serialize" /\ AloneShape(r)
      /\ sreq[r].kind \in Kinds /\ UNCHANGED <<store, cookies, active>>
  BY DEF SessionsIInv, TypeOK, Request, Serialize, SerialIInv
<1>2. \/ sreq[r].kind = "login" /\ Begin(r, "login", 0)
      \/ sreq[r].kind = "use" /\ Begin(r, "handle", 0)
      \/ sreq[r].kind = "logout" /\ Begin(r, "destroy", 200)
      \/ sreq[r].kind # "login" /\ ~Passes(sreq[r].user) /\ End(r, "destroy", 401)
  BY DEF Serialize
<1>3. /\ \/ sreq[r].kind = "login" /\ sreq'[r].pc = "login"
         \/ sreq[r].kind = "use" /\ sreq'[r].pc = "handle"
         \/ sreq[r].kind = "logout" /\ sreq'[r].pc = "destroy"
         \/ sreq[r].kind # "login" /\ ~Passes(sreq[r].user) /\ sreq'[r].pc = "destroy"
      /\ sreq'[r].kind = sreq[r].kind /\ sreq'[r].device = sreq[r].device
      /\ sreq'[r].sid = sreq[r].sid /\ sreq'[r].loaded = sreq[r].loaded
      /\ sreq'[r].user = sreq[r].user
      /\ \A q \in Requests : q # r => sreq'[q] = sreq[q]
  <2>1. ASSUME NEW pc, NEW status, End(r, pc, status) \/ Begin(r, pc, status)
        PROVE  /\ sreq'[r].pc = pc
               /\ sreq'[r].kind = sreq[r].kind /\ sreq'[r].device = sreq[r].device
               /\ sreq'[r].sid = sreq[r].sid /\ sreq'[r].loaded = sreq[r].loaded
               /\ sreq'[r].user = sreq[r].user
               /\ \A q \in Requests : q # r => sreq'[q] = sreq[q]
    <3>1. CASE End(r, pc, status)
      BY <1>1, <3>1 DEF SessionsIInv, TypeOK, Request, End
    <3>2. CASE Begin(r, pc, status)
      BY <1>1, <3>2 DEF SessionsIInv, TypeOK, Request, Begin
    <3> QED
      BY <2>1, <3>1, <3>2
  <2>2. CASE sreq[r].kind = "login" /\ Begin(r, "login", 0)
    BY <2>1, <2>2
  <2>3. CASE sreq[r].kind = "use" /\ Begin(r, "handle", 0)
    BY <2>1, <2>3
  <2>4. CASE sreq[r].kind = "logout" /\ Begin(r, "destroy", 200)
    BY <2>1, <2>4
  <2>5. CASE sreq[r].kind # "login" /\ ~Passes(sreq[r].user) /\ End(r, "destroy", 401)
    BY <2>1, <2>5
  <2> QED
    BY <1>2, <2>2, <2>3, <2>4, <2>5
<1>4. Passes(sreq[r].user)' = Passes(sreq[r].user)
  BY <1>1, <1>3 DEF Passes
<1>5. AloneShape(r)'
  BY <1>1, <1>3, <1>4 DEF AloneShape, OpenPcs, Kinds
<1>6. Gone(r)' /\ sreq'[r].pc # "failed"
  BY <1>3 DEF Gone
<1> QED
  BY <1>1, <1>3, <1>5, <1>6, OpenStep DEF OpenPcs

\* A request that is answered, with its copy as it is.
LEMMA AloneEnds ==
    ASSUME SessionsIInv, SerialIInv, NEW r \in Requests, NEW status,
           sreq[r].pc \in {"login", "getUser", "handle"},
           End(r, "save", status), UNCHANGED <<store, cookies, active>>,
           sreq[r].pc = "login" => status # 200,
           sreq[r].pc = "getUser" => status = 200,
           sreq[r].pc = "handle" => status \in {200, 400, 500}
    PROVE  SerialIInv'
<1>1. sreq[r] \in Request /\ AloneShape(r)
  BY DEF SessionsIInv, TypeOK, SerialIInv
<1>2. sreq[r].pc = "login" => sreq[r].kind = "login"
  BY DEF SessionsIInv, RequestShape
<1>3. /\ sreq'[r].pc = "save" /\ sreq'[r].status = status
      /\ sreq'[r].kind = sreq[r].kind /\ sreq'[r].device = sreq[r].device
      /\ sreq'[r].sid = sreq[r].sid /\ sreq'[r].loaded = sreq[r].loaded
      /\ sreq'[r].user = sreq[r].user /\ sreq'[r].target = sreq[r].target
      /\ \A q \in Requests : q # r => sreq'[q] = sreq[q]
  BY <1>1 DEF SessionsIInv, TypeOK, Request, End
<1>4. AloneShape(r)'
  BY <1>1, <1>2, <1>3 DEF AloneShape, OpenPcs
<1>5. Gone(r)' /\ sreq'[r].pc # "failed"
  BY <1>3 DEF Gone
<1> QED
  BY <1>1, <1>3, <1>4, <1>5, OpenStep DEF OpenPcs

LEMMA AloneHandle ==
    ASSUME SessionsIInv, SerialIInv, NEW r \in Requests, Handle(r) \/ GetUser(r)
    PROVE  SerialIInv'
<1>1. CASE Handle(r)
  <2>1. PICK status \in {200, 400, 500} : End(r, "save", status)
    BY <1>1, Zenon DEF Handle
  <2> QED
    BY <1>1, <2>1, AloneEnds DEF Handle
<1>2. CASE GetUser(r)
  BY <1>2, AloneEnds DEF GetUser
<1> QED
  BY <1>1, <1>2

LEMMA AloneLogin ==
    ASSUME SessionsIInv, SerialIInv, NEW r \in Requests, Login(r)
    PROVE  SerialIInv'
<1> DEFINE status == LoginStatus(sreq[r])
<1>1. /\ sreq[r] \in Request /\ sreq[r].pc = "login" /\ AloneShape(r)
      /\ UNCHANGED <<store, cookies, active>>
  BY DEF SessionsIInv, TypeOK, Login, SerialIInv
<1>2. sreq[r].kind = "login"
  BY <1>1 DEF SessionsIInv, RequestShape
<1>3. CASE status # 200
  <2>1. End(r, "save", status)
    BY <1>3, Zenon DEF Login
  <2> HIDE DEF status
  <2> QED
    BY <1>1, <1>3, <2>1, AloneEnds
<1>4. CASE status = 200
  <2>1. sreq' = [sreq EXCEPT ![r] = [sreq[r] EXCEPT !.pc = "getUser",
                                                    !.user = sreq[r].target]]
    BY <1>4, Zenon DEF Login
  <2>2. sreq[r].target # Null
    BY <1>4 DEF LoginStatus
  <2>3. /\ sreq'[r].pc = "getUser" /\ sreq'[r].user = sreq[r].target
        /\ sreq'[r].kind = sreq[r].kind /\ sreq'[r].device = sreq[r].device
        /\ sreq'[r].sid = sreq[r].sid /\ sreq'[r].loaded = sreq[r].loaded
        /\ sreq'[r].target = sreq[r].target
        /\ \A q \in Requests : q # r => sreq'[q] = sreq[q]
    BY <1>1, <2>1 DEF SessionsIInv, TypeOK, Request
  <2>4. AloneShape(r)'
    BY <1>1, <1>2, <2>2, <2>3 DEF AloneShape, OpenPcs
  <2>5. Gone(r)' /\ sreq'[r].pc # "failed"
    BY <2>3 DEF Gone
  <2> QED
    BY <1>1, <2>3, <2>4, <2>5, OpenStep DEF OpenPcs
<1> QED
  BY <1>3, <1>4

\* The session was found, or its id is new.
LEMMA AloneSave ==
    ASSUME SessionsIInv, SerialIInv, NEW r \in Requests, SaveSession(r)
    PROVE  SerialIInv'
<1>1. /\ sreq[r] \in Request /\ sreq[r].pc = "save" /\ AloneShape(r)
      /\ Goto(r, "answer") /\ UNCHANGED <<cookies, active>>
      /\ sreq[r].sid \in SessionIds \cup {Null}
  BY DEF SessionsIInv, TypeOK, Request, SaveSession, SerialIInv
<1>2. /\ sreq'[r].pc = "answer" /\ sreq'[r].status = sreq[r].status
      /\ sreq'[r].kind = sreq[r].kind /\ sreq'[r].device = sreq[r].device
      /\ sreq'[r].sid = sreq[r].sid /\ sreq'[r].loaded = sreq[r].loaded
      /\ sreq'[r].user = sreq[r].user /\ sreq'[r].target = sreq[r].target
      /\ \A q \in Requests : q # r => sreq'[q] = sreq[q]
  BY <1>1 DEF SessionsIInv, TypeOK, Request, Goto
<1>3. /\ sreq[r].sid # Null /\ store[sreq[r].sid] = sreq[r].loaded
      /\ sreq[r].loaded = Null => sreq[r].sid = r
  BY <1>1 DEF AloneShape, OpenPcs
<1>4. store' = IF sreq[r].loaded # Null \/ sreq[r].user # sreq[r].loaded
               THEN [store EXCEPT ![sreq[r].sid] = sreq[r].user] ELSE store
  BY DEF SaveSession, Modified
<1>5. \A s \in SessionIds : \/ store'[s] \in {store[s], Null}
                            \/ s = sreq[r].sid /\ (s = r \/ store[s] # Null)
  BY <1>3, <1>4 DEF SessionsIInv, TypeOK
<1>6. store'[sreq[r].sid] = sreq[r].user
  BY <1>1, <1>3, <1>4 DEF SessionsIInv, TypeOK
<1>7. AloneShape(r)'
  BY <1>1, <1>2, <1>6 DEF AloneShape, OpenPcs
<1>8. Gone(r)' /\ sreq'[r].pc # "failed"
  BY <1>1, <1>2 DEF Gone, AloneShape
<1> QED
  BY <1>1, <1>2, <1>5, <1>7, <1>8, OpenStep DEF OpenPcs

LEMMA AloneDestroy ==
    ASSUME SessionsIInv, SerialIInv, NEW r \in Requests, DestroySession(r)
    PROVE  SerialIInv'
<1>1. /\ sreq[r] \in Request /\ sreq[r].pc = "destroy" /\ AloneShape(r)
      /\ store' = [store EXCEPT ![sreq[r].sid] = Null] /\ UNCHANGED <<cookies, active>>
      /\ sreq[r].sid \in SessionIds \cup {Null}
  BY DEF SessionsIInv, TypeOK, Request, DestroySession, SerialIInv
<1>2. /\ sreq'[r].pc = "answer" /\ sreq'[r].status = sreq[r].status
      /\ sreq'[r].kind = sreq[r].kind /\ sreq'[r].device = sreq[r].device
      /\ sreq'[r].sid = sreq[r].sid /\ sreq'[r].loaded = sreq[r].loaded
      /\ \A q \in Requests : q # r => sreq'[q] = sreq[q]
  BY <1>1 DEF SessionsIInv, TypeOK, Request, DestroySession
<1>3. sreq[r].sid # Null /\ sreq[r].kind # "login"
  BY <1>1 DEF AloneShape, OpenPcs
<1>4. store'[sreq[r].sid] = Null /\ \A s \in SessionIds : store'[s] \in {store[s], Null}
  BY <1>1, <1>3 DEF SessionsIInv, TypeOK
<1>5. AloneShape(r)'
  BY <1>1, <1>2, <1>3 DEF AloneShape, OpenPcs
<1>6. Gone(r)' /\ sreq'[r].pc # "failed"
  BY <1>2, <1>4 DEF Gone
<1> QED
  BY <1>1, <1>2, <1>4, <1>5, <1>6, OpenStep DEF OpenPcs

LEMMA AloneAnswer ==
    ASSUME SessionsIInv, SerialIInv, NEW r \in Requests, Answer(r)
    PROVE  SerialIInv'
<1>1. /\ sreq[r] \in Request /\ sreq[r].pc = "answer" /\ AloneShape(r)
      /\ UNCHANGED <<store, active>> /\ Gone(r)
  BY DEF SessionsIInv, TypeOK, Answer, SerialIInv, DestroyedIsGone, Gone
<1>2. /\ sreq'[r].pc = "done" /\ sreq'[r].status = sreq[r].status
      /\ sreq'[r].kind = sreq[r].kind /\ sreq'[r].sid = sreq[r].sid
      /\ \A q \in Requests : q # r => sreq'[q] = sreq[q]
  BY <1>1 DEF SessionsIInv, TypeOK, Request, Answer
<1>3. \/ cookies' = cookies
      \/ cookies' = [cookies EXCEPT ![sreq[r].device] = Null]
      \/ cookies' = [cookies EXCEPT ![sreq[r].device] = sreq[r].sid]
  BY DEF Answer
<1>4. \A d \in Devices : cookies'[d] \in {cookies[d], Null, sreq[r].sid}
  BY <1>3 DEF SessionsIInv, TypeOK
<1>5. AloneShape(r)' /\ Gone(r)'
  BY <1>1, <1>2 DEF AloneShape, Gone, OpenPcs
<1> QED
  BY <1>1, <1>2, <1>4, <1>5, OpenStep DEF OpenPcs

\* An administrator only takes away; a user who does not pass never does again.
LEMMA AloneDeactivates ==
    ASSUME SessionsIInv, SerialIInv, UNCHANGED <<store, cookies, sreq>>, active' \subseteq active
    PROVE  SerialIInv'
<1>1. \A u : ~Passes(u) => ~Passes(u)'
  BY DEF Passes
<1>2. Open' = Open /\ \A r \in Requests : FreshId(r)' = FreshId(r)
  BY DEF Open, FreshId
<1>3. \A r \in Requests : AloneShape(r) => AloneShape(r)'
  BY <1>1 DEF AloneShape
<1>4. DestroyedIsGone' = DestroyedIsGone
  BY DEF DestroyedIsGone
<1> QED
  BY <1>2, <1>3, <1>4 DEF SerialIInv

LEMMA SerialInit ==
    Init => SerialIInv
  BY SessionsAssumption
  DEF Init, NoRequest, SerialIInv, Open, OpenPcs, AloneShape, FreshId, DestroyedIsGone

\* What holds when one request is made at a time and nothing fails.
THEOREM SerialInvariant ==
    ASSUME MaxOverlap = 1
    PROVE  CalmSpec => [](SessionsIInv /\ SerialIInv)
<1>1. CalmNext => Next
  BY DEF CalmNext, Next
<1>2. CalmSpec => []SessionsIInv
  BY <1>1, SessionsInvariant, PTL DEF CalmSpec, Spec
<1>3. SessionsIInv /\ SerialIInv /\ [CalmNext]_vars => SerialIInv'
  <2> SUFFICES ASSUME SessionsIInv, SerialIInv, [CalmNext]_vars PROVE SerialIInv'
    OBVIOUS
  <2>1. CASE Receives
    BY <2>1, AloneReceive
  <2>2. ASSUME NEW r \in Requests, Step(r) PROVE SerialIInv'
    BY <2>2, AloneLoad, AloneSerialize, AloneLogin, AloneHandle, AloneSave, AloneDestroy,
       AloneAnswer
    DEF Step
  <2>3. CASE Deactivates
    BY <2>3, AloneDeactivates DEF Deactivates, Deactivate
  <2>4. CASE UNCHANGED vars
    BY <2>4, AloneDeactivates DEF vars
  <2> QED
    BY <2>1, <2>2, <2>3, <2>4 DEF CalmNext
<1> QED
  BY <1>2, <1>3, SerialInit, PTL DEF CalmSpec

\* When requests do not overlap and nothing fails, a session that a log out or
\* the guard has destroyed is gone and stays so (authenticated.guard.ts:32).
THEOREM DestroyedStaysGone ==
    ASSUME MaxOverlap = 1
    PROVE  CalmSpec => []DestroyedIsGone
<1>1. SerialIInv => DestroyedIsGone
  BY DEF SerialIInv
<1> QED
  BY <1>1, SerialInvariant, PTL

\* ... a log in that succeeds gives the device a cookie of a session of the user
\* (authentication.controller.ts:40) ...
THEOREM LoginAlwaysGivesSession ==
    ASSUME MaxOverlap = 1
    PROVE  CalmSpec => LoginGivesSession
<1>1. SessionsIInv /\ SerialIInv /\ [CalmNext]_vars
      => [\A r \in Requests :
            /\ sreq[r].pc = "answer" /\ sreq'[r].pc = "done"
            /\ sreq[r].kind = "login" /\ sreq[r].status = 200
            => /\ cookies'[sreq[r].device] # Null
               /\ store[cookies'[sreq[r].device]] = sreq[r].target]_vars
  <2> SUFFICES ASSUME SessionsIInv, SerialIInv, [CalmNext]_vars, NEW r \in Requests,
                      sreq[r].pc = "answer", sreq'[r].pc = "done",
                      sreq[r].kind = "login", sreq[r].status = 200
               PROVE  /\ cookies'[sreq[r].device] # Null
                      /\ store[cookies'[sreq[r].device]] = sreq[r].target
    OBVIOUS
  <2>1. AloneShape(r) /\ sreq[r] \in Request
    BY DEF SessionsIInv, TypeOK, SerialIInv
  <2>2. /\ sreq[r].device \in Devices /\ sreq[r].sid # Null
        /\ sreq[r].loaded # Null => sreq[r].sid = cookies[sreq[r].device]
        /\ sreq[r].user = sreq[r].target /\ sreq[r].target # Null
        /\ store[sreq[r].sid] = sreq[r].target
    BY <2>1 DEF AloneShape, OpenPcs
  <2>3. Answer(r)
    <3>1. sreq' # sreq
      OBVIOUS
    <3>2. ~Receives
      <4> SUFFICES ASSUME Receives PROVE FALSE
        OBVIOUS
      <4>1. PICK q \in Requests, d \in Devices, kind \in {"login", "use", "logout"},
                 target \in Users \cup {Null}, right \in BOOLEAN :
                 Receive(q, d, kind, target, right)
        BY ReceivesOne
      <4>2. sreq[q].pc = "idle" /\ \E rec : sreq' = [sreq EXCEPT ![q] = rec]
        BY <4>1 DEF Receive
      <4> QED
        BY <4>2 DEF SessionsIInv, TypeOK
    <3>3. PICK q \in Requests : Step(q)
      BY <3>1, <3>2 DEF CalmNext, Deactivates, Deactivate, vars
    <3>4. q = r
      <4>1. \E rec : sreq' = [sreq EXCEPT ![q] = rec]
        BY <3>3 DEF Step, LoadSession, Serialize, Login, GetUser, Handle, SaveSession,
                    DestroySession, Answer, Goto, End, Begin
      <4> QED
        BY <4>1 DEF SessionsIInv, TypeOK
    <3> QED
      BY <3>3, <3>4 DEF Step, LoadSession, Serialize, Login, GetUser, Handle, SaveSession,
                        DestroySession
  <2>4. cookies' = IF sreq[r].user # sreq[r].loaded
                   THEN [cookies EXCEPT ![sreq[r].device] = sreq[r].sid] ELSE cookies
    BY <2>3 DEF Answer, Modified
  <2> QED
    BY <2>2, <2>4 DEF SessionsIInv, TypeOK
<1> QED
  BY <1>1, SerialInvariant, PTL DEF CalmSpec, LoginGivesSession

\* ... and a user who is active stays logged in until there is a log out on the
\* session (session.middleware.ts:16).
THEOREM ActiveAlwaysStaysLoggedIn ==
    ASSUME MaxOverlap = 1
    PROVE  CalmSpec => ActiveStaysLoggedIn
<1>1. SessionsIInv /\ SerialIInv /\ [CalmNext]_vars
      => [\A s \in SessionIds :
            store[s] # Null /\ store'[s] = Null /\ Passes(store[s])
                => \E r \in Requests : /\ sreq[r].pc = "destroy" /\ sreq[r].kind = "logout"
                                       /\ sreq[r].sid = s]_vars
  <2> SUFFICES ASSUME SessionsIInv, SerialIInv, [CalmNext]_vars, NEW s \in SessionIds,
                      store[s] # Null, store'[s] = Null, Passes(store[s])
               PROVE  \E r \in Requests : /\ sreq[r].pc = "destroy" /\ sreq[r].kind = "logout"
                                          /\ sreq[r].sid = s
    OBVIOUS
  <2>1. store' # store
    OBVIOUS
  <2>2. PICK r \in Requests : SaveSession(r) \/ DestroySession(r)
    BY <2>1, ZenonT(40) DEF CalmNext, Receives, Receive, Deactivates, Deactivate, vars,
                Step, LoadSession, Serialize, Login, GetUser, Handle, Answer
  <2>3. AloneShape(r)
    BY DEF SerialIInv
  <2>4. CASE SaveSession(r)
    <3>1. /\ sreq[r].sid = s /\ sreq[r].user = Null /\ store[s] = sreq[r].loaded
      BY <2>3, <2>4 DEF SaveSession, SessionsIInv, TypeOK, AloneShape
    <3> QED
      BY <2>3, <2>4, <3>1 DEF SaveSession, AloneShape
  <2>5. CASE DestroySession(r)
    <3>1. /\ sreq[r].sid = s /\ store[s] = sreq[r].loaded /\ sreq[r].user = sreq[r].loaded
      BY <2>3, <2>5 DEF DestroySession, SessionsIInv, TypeOK, AloneShape
    <3> QED
      BY <2>3, <2>5, <3>1 DEF DestroySession, AloneShape
  <2> QED
    BY <2>2, <2>4, <2>5
<1> QED
  BY <1>1, SerialInvariant, PTL DEF CalmSpec, ActiveStaysLoggedIn

-----------------------------------------------------------------------------
(* The inductive invariant behind WorkersTypeOK and RequestLinesTellOutcome, *)
(* beside that of Sessions: a request has its line once its handler has      *)
(* ended, which is before it is saved or answered.                           *)

RequestLines(r) == {line \in lines : line.source = "request" /\ line.about = r}

Outcome(r) == [source |-> "request", level |-> IF sreq[r].status = 200 THEN "info" ELSE "warn",
               about |-> r]

\* Which requests have got to their handler.
HandledShape(r) ==
    /\ sreq[r].pc \in {"idle", "load", "serialize"} => ~sreq[r].handled
    /\ sreq[r].pc \in {"login", "getUser", "handle"} => sreq[r].handled
    /\ sreq[r].pc = "destroy" => (sreq[r].handled <=> sreq[r].status = 200)

LinesShapeOf(r) ==
    /\ HandledShape(r)
    /\ RequestLines(r) \subseteq {Outcome(r)}
    /\ RequestLines(r) # {} => sreq[r].handled
    /\ sreq[r].pc \in Undecided \cup {"destroy"} => RequestLines(r) = {}
    /\ sreq[r].pc \in {"save", "answer", "done"} /\ sreq[r].handled =>
          /\ sreq[r].status = 200 /\ Shows(config, "info") => RequestLines(r) # {}
          /\ sreq[r].status # 200 /\ Shows(config, "warn") => RequestLines(r) # {}

LinesShape == \A r \in Requests : LinesShapeOf(r)

WorkersIInv == WorkersTypeOK /\ LinesShape

-----------------------------------------------------------------------------
\* A step of the worker that serves a request is a step of the request, whatever
\* is logged.
LEMMA ServeIsStep ==
    ASSUME NEW r \in Requests, Serve(r)
    PROVE  Step(r)
BY DEF Serve, SerializeLogged, HandleLogged, LoginLogged, GetUserLogged, DestroyLogged,
       Silently, Step

\* A worker that dies, is forked or starts does nothing to sessions.
LEMMA ProcessesKeepSessions ==
    ASSUME NEW w \in WorkerIds,
           Fork(w) \/ Bootstrap(w) \/ \E e \in RedisErrors : RedisError(w, e)
    PROVE  UNCHANGED vars
BY DEF Fork, Bootstrap, RedisError

\* What holds of Sessions holds of the workers, which take its steps.
LEMMA WorkersTakeSessionsSteps ==
    WorkersSpec => Spec
<1>1. WorkersInit => Init
  BY DEF WorkersInit
<1>2. [WorkersNext]_allVars => [Next]_vars
  <2> SUFFICES ASSUME [WorkersNext]_allVars PROVE [Next]_vars
    OBVIOUS
  <2>1. ASSUME NEW w \in WorkerIds,
               Fork(w) \/ Bootstrap(w) \/ \E e \in RedisErrors : RedisError(w, e)
        PROVE  UNCHANGED vars
    BY <2>1, ProcessesKeepSessions
  <2>2. CASE WorkerReceives
    BY <2>2 DEF WorkerReceives, Next
  <2>3. ASSUME NEW r \in Requests, Serve(r) PROVE Next
    BY <2>3, ServeIsStep DEF Next
  <2>4. ASSUME NEW r \in Requests, Disconnect(r) \/ FailLogged(r) \/ LoadFails(r)
        PROVE  Next
    <3>1. Fail(r) \/ Abort(r)
      BY <2>4 DEF Disconnect, FailLogged, LoadFails
    <3> QED
      BY <3>1 DEF Next
  <2>5. CASE Deactivates \/ \E s \in SessionIds : Expire(s)
    BY <2>5 DEF Next
  <2>6. CASE UNCHANGED allVars
    BY <2>6 DEF allVars
  <2> QED
    BY <2>1, <2>2, <2>3, <2>4, <2>5, <2>6 DEF WorkersNext
<1> QED
  BY <1>1, <1>2, PTL DEF WorkersSpec, Spec

\* So no session is anybody's who has not logged in on it, though workers die
\* in the middle of requests (session.middleware.ts:29).
COROLLARY WorkersKeepSessionComesFromLogin ==
    WorkersSpec => []SessionComesFromLogin
BY WorkersTakeSessionsSteps, SessionComesFromLoginAlways

-----------------------------------------------------------------------------
(* The log lines: WorkersIInv is inductive relative to SessionsIInv.         *)

\* Everything that is written has the type of a line.
LEMMA WrittenIsLine ==
    ASSUME NEW about \in Requests \cup WorkerIds \cup RedisErrors,
           NEW source \in Sources, NEW level \in LogLevels,
           NEW line \in Write(config, source, level, about)
    PROVE  /\ line = [source |-> source, level |-> level, about |-> about]
           /\ line \in LogLine
BY DEF Write, LogLine

\* The lines a request may log in one call: its own, and the interceptor's.
OwnLines(r) ==
    LogQuery(config, r) \cup LogQueryError(config, r) \cup LogException(config, r)
        \cup Write(config, "login", "warn", r)

Lines(r, status) == OwnLines(r) \cup Intercept(config, r, status)

LEMMA LinesAreLines ==
    ASSUME NEW r \in Requests, NEW status, NEW line \in Lines(r, status)
    PROVE  line \in LogLine /\ line.about = r
<1>1. /\ {"query", "nest", "login", "request"} \subseteq Sources
      /\ {"debug", "error", "warn", "info"} \subseteq LogLevels
  BY DEF Sources, LogLevels
<1>2. CASE line \in LogQuery(config, r)
  BY <1>1, <1>2, WrittenIsLine DEF LogQuery
<1>3. CASE line \in LogQueryError(config, r)
  BY <1>1, <1>3, WrittenIsLine DEF LogQueryError
<1>4. CASE line \in LogException(config, r)
  BY <1>1, <1>4, WrittenIsLine DEF LogException
<1>5. CASE line \in Write(config, "login", "warn", r)
  BY <1>1, <1>5, WrittenIsLine
<1>6. CASE line \in Intercept(config, r, status)
  BY <1>1, <1>6, WrittenIsLine DEF Intercept
<1> QED
  BY <1>2, <1>3, <1>4, <1>5, <1>6 DEF Lines, OwnLines

\* A request that takes a step keeps the others' lines as they are.
LEMMA OthersLinesKept ==
    ASSUME LinesShape, config' = config, NEW r \in Requests, LinesShapeOf(r)',
           \A q \in Requests : q # r => sreq'[q] = sreq[q],
           NEW new, lines' = lines \cup new,
           \A line \in new : line.source = "request" => line.about = r
    PROVE  LinesShape'
<1>1. ASSUME NEW q \in Requests, q # r PROVE LinesShapeOf(q)'
  <2>1. RequestLines(q)' = RequestLines(q) /\ Outcome(q)' = Outcome(q) /\ sreq'[q] = sreq[q]
    BY <1>1 DEF RequestLines, Outcome
  <2>2. HandledShape(q)' = HandledShape(q)
    BY <2>1 DEF HandledShape
  <2>3. Shows(config, "info")' = Shows(config, "info") /\ Shows(config, "warn")' = Shows(config, "warn")
    BY DEF Shows
  <2> QED
    BY <2>1, <2>2, <2>3 DEF LinesShape, LinesShapeOf
<1> QED
  BY <1>1 DEF LinesShape

\* Both together, with what is said of the request itself left to prove.
LEMMA RequestLogs ==
    ASSUME WorkersIInv, config' = config, NEW r \in Requests, NEW status, NEW new,
           lines' = lines \cup new, new \subseteq Lines(r, status),
           \A q \in Requests : q # r => sreq'[q] = sreq[q], LinesShapeOf(r)'
    PROVE  lines' \subseteq LogLine /\ LinesShape'
<1>1. \A line \in new : line \in LogLine /\ line.about = r
  BY LinesAreLines
<1>2. lines' \subseteq LogLine
  BY <1>1 DEF WorkersIInv, WorkersTypeOK
<1> QED
  BY <1>1, <1>2, OthersLinesKept DEF WorkersIInv

\* The lines of a request after it has logged.
Told(r, new) == {line \in new : line.source = "request" /\ line.about = r}

LEMMA RequestLinesGrow ==
    ASSUME NEW r, NEW new, lines' = lines \cup new
    PROVE  /\ RequestLines(r)' = RequestLines(r) \cup Told(r, new)
           /\ Told(r, new) = {} => RequestLines(r)' = RequestLines(r)
           /\ RequestLines(r) = {} => RequestLines(r)' = Told(r, new)
BY DEF RequestLines, Told

\* The interceptor writes the one line about a request, when it is shown.
LEMMA InterceptSays ==
    ASSUME NEW r, NEW status \in Nat
    PROVE  /\ Told(r, Intercept(config, r, status)) = Intercept(config, r, status)
           /\ status < 400 => Intercept(config, r, status) =
                 IF Shows(config, "info")
                 THEN {[source |-> "request", level |-> "info", about |-> r]} ELSE {}
           /\ ~(status < 400) => Intercept(config, r, status) =
                 IF Shows(config, "warn")
                 THEN {[source |-> "request", level |-> "warn", about |-> r]} ELSE {}
BY DEF Intercept, Write, Told

LEMMA OnlyIntercepted ==
    ASSUME NEW r
    PROVE  \A line \in OwnLines(r) : line.source # "request"
BY DEF OwnLines, LogQuery, LogQueryError, LogException, Write

\* What a step that changes pc or status of a request does to its record.
LEMMA GotoSays ==
    ASSUME TypeOK, NEW r \in Requests, NEW pc, Goto(r, pc)
    PROVE  /\ sreq'[r].pc = pc /\ sreq'[r].status = sreq[r].status
           /\ sreq'[r].handled = sreq[r].handled
           /\ \A q \in Requests : q # r => sreq'[q] = sreq[q]
<1>1. sreq[r] \in Request
  BY DEF TypeOK
<1> QED
  BY <1>1 DEF Goto, TypeOK, Request

LEMMA EndSays ==
    ASSUME TypeOK, NEW r \in Requests, NEW pc, NEW status, End(r, pc, status)
    PROVE  /\ sreq'[r].pc = pc /\ sreq'[r].status = status
           /\ sreq'[r].handled = sreq[r].handled
           /\ \A q \in Requests : q # r => sreq'[q] = sreq[q]
<1>1. sreq[r] \in Request
  BY DEF TypeOK
<1> QED
  BY <1>1 DEF End, TypeOK, Request

LEMMA BeginSays ==
    ASSUME TypeOK, NEW r \in Requests, NEW pc, NEW status, Begin(r, pc, status)
    PROVE  /\ sreq'[r].pc = pc /\ sreq'[r].status = status /\ sreq'[r].handled
           /\ \A q \in Requests : q # r => sreq'[q] = sreq[q]
<1>1. sreq[r] \in Request
  BY DEF TypeOK
<1> QED
  BY <1>1 DEF Begin, TypeOK, Request

\* No line about the request itself: it has none yet and is not to have one ...
LEMMA StillUntold ==
    ASSUME config' = config, NEW r \in Requests, NEW new, lines' = lines \cup new,
           RequestLines(r) = {}, Told(r, new) = {}, HandledShape(r)',
           \/ sreq'[r].pc \in Undecided \cup {"destroy"}
           \/ ~sreq'[r].handled
    PROVE  LinesShapeOf(r)'
<1>1. RequestLines(r)' = {}
  BY RequestLinesGrow
<1> QED
  BY <1>1 DEF LinesShapeOf, Undecided

\* ... or its handler has ended, and the interceptor logs how ...
LEMMA NowTold ==
    ASSUME config' = config, NEW r \in Requests, NEW new, lines' = lines \cup new,
           RequestLines(r) = {}, NEW status \in Nat,
           Told(r, new) = Intercept(config, r, status),
           status < 400 <=> sreq'[r].status = 200,
           sreq'[r].handled, sreq'[r].pc \in {"save", "answer", "done"}
    PROVE  LinesShapeOf(r)'
<1>1. RequestLines(r)' = Intercept(config, r, status)
  BY RequestLinesGrow
<1>2. Shows(config, "info")' = Shows(config, "info") /\ Shows(config, "warn")' = Shows(config, "warn")
  BY DEF Shows
<1>3. HandledShape(r)' /\ sreq'[r].pc \notin Undecided \cup {"destroy"}
  BY DEF HandledShape, Undecided
<1>4. CASE status < 400
  <2>1. RequestLines(r)' = IF Shows(config, "info")
            THEN {[source |-> "request", level |-> "info", about |-> r]} ELSE {}
    BY <1>1, <1>4, InterceptSays
  <2>2. Outcome(r)' = [source |-> "request", level |-> "info", about |-> r]
    BY <1>4 DEF Outcome
  <2> QED
    BY <1>2, <1>3, <1>4, <2>1, <2>2 DEF LinesShapeOf
<1>5. CASE ~(status < 400)
  <2>1. RequestLines(r)' = IF Shows(config, "warn")
            THEN {[source |-> "request", level |-> "warn", about |-> r]} ELSE {}
    BY <1>1, <1>5, InterceptSays
  <2>2. Outcome(r)' = [source |-> "request", level |-> "warn", about |-> r]
    BY <1>5 DEF Outcome
  <2> QED
    BY <1>2, <1>3, <1>5, <2>1, <2>2 DEF LinesShapeOf
<1> QED
  BY <1>4, <1>5

\* ... or that has been said, and stays said; a request that stops says nothing.
LEMMA ToldBefore ==
    ASSUME config' = config, NEW r \in Requests, LinesShapeOf(r), NEW new,
           lines' = lines \cup new, Told(r, new) = {},
           sreq'[r].status = sreq[r].status, sreq'[r].handled = sreq[r].handled,
           \/ sreq[r].pc \in {"save", "answer"} /\ sreq'[r].pc \in {"answer", "done"}
           \/ sreq'[r].pc = "failed"
    PROVE  LinesShapeOf(r)'
<1>1. RequestLines(r)' = RequestLines(r)
  BY RequestLinesGrow
<1>2. Outcome(r)' = Outcome(r)
  BY DEF Outcome
<1>3. Shows(config, "info")' = Shows(config, "info") /\ Shows(config, "warn")' = Shows(config, "warn")
  BY DEF Shows
<1>4. HandledShape(r)'
  BY DEF HandledShape
<1> QED
  BY <1>1, <1>2, <1>3, <1>4 DEF LinesShapeOf, Undecided

\* The serializer and the guard come before the handler and its line.
LEMMA SerializeTells ==
    ASSUME SessionsIInv, WorkersIInv, NEW r \in Requests, SerializeLogged(r)
    PROVE  lines' \subseteq LogLine /\ LinesShape'
<1> DEFINE new == IF sreq[r].user # Null THEN LogQuery(config, r) ELSE {}
<1>1. TypeOK /\ LinesShapeOf(r)
  BY DEF SessionsIInv, WorkersIInv, LinesShape
<1>2. lines' = lines \cup new /\ config' = config
  BY Zenon DEF SerializeLogged, Log
<1>3. /\ sreq[r].pc = "serialize"
      /\ \/ Begin(r, "login", 0) \/ Begin(r, "handle", 0)
         \/ Begin(r, "destroy", 200) \/ End(r, "destroy", 401)
  BY DEF SerializeLogged, Serialize
<1>4. /\ RequestLines(r) = {} /\ ~sreq[r].handled
  BY <1>1, <1>3 DEF LinesShapeOf, HandledShape, Undecided
<1>5. /\ \A q \in Requests : q # r => sreq'[q] = sreq[q]
      /\ \/ sreq'[r].pc \in {"login", "handle"} /\ sreq'[r].handled
         \/ sreq'[r].pc = "destroy" /\ sreq'[r].status = 200 /\ sreq'[r].handled
         \/ sreq'[r].pc = "destroy" /\ sreq'[r].status = 401 /\ ~sreq'[r].handled
  <2>1. CASE Begin(r, "login", 0)
    BY <1>1, <2>1, BeginSays
  <2>2. CASE Begin(r, "handle", 0)
    BY <1>1, <2>2, BeginSays
  <2>3. CASE Begin(r, "destroy", 200)
    BY <1>1, <2>3, BeginSays
  <2>4. CASE End(r, "destroy", 401)
    BY <1>1, <1>4, <2>4, EndSays
  <2> QED
    BY <1>3, <2>1, <2>2, <2>3, <2>4
<1>6. Told(r, new) = {}
  BY OnlyIntercepted DEF Told, OwnLines
<1>7. new \subseteq Lines(r, 200)
  BY DEF Lines, OwnLines
<1> HIDE DEF new
<1>8. HandledShape(r)' /\ sreq'[r].pc \in Undecided \cup {"destroy"}
  BY <1>5 DEF HandledShape, Undecided
<1>9. LinesShapeOf(r)'
  BY <1>2, <1>4, <1>6, <1>8, StillUntold
<1> QED
  BY <1>2, <1>5, <1>7, <1>9, RequestLogs

\* A handler that ends is told of, whatever it has said itself.
LEMMA HandlerTells ==
    ASSUME SessionsIInv, WorkersIInv, NEW r \in Requests,
           sreq[r].pc \in {"login", "getUser", "handle"},
           NEW status \in Statuses, status # 0, End(r, "save", status),
           NEW own, own \subseteq OwnLines(r),
           Log(own \cup Intercept(config, r, status))
    PROVE  lines' \subseteq LogLine /\ LinesShape'
<1> DEFINE new == own \cup Intercept(config, r, status)
<1>1. TypeOK /\ LinesShapeOf(r)
  BY DEF SessionsIInv, WorkersIInv, LinesShape
<1>2. lines' = lines \cup new /\ config' = config
  BY DEF Log
<1>3. RequestLines(r) = {} /\ sreq[r].handled
  BY <1>1 DEF LinesShapeOf, HandledShape, Undecided
<1>4. /\ sreq'[r].pc = "save" /\ sreq'[r].status = status /\ sreq'[r].handled
      /\ \A q \in Requests : q # r => sreq'[q] = sreq[q]
  BY <1>1, <1>3, EndSays
<1>5. status \in Nat /\ (status < 400 <=> status = 200)
  BY DEF Statuses
<1>6. Told(r, new) = Intercept(config, r, status)
  <2>1. Told(r, own) = {}
    BY OnlyIntercepted DEF Told
  <2>2. Told(r, new) = Told(r, own) \cup Told(r, Intercept(config, r, status))
    BY DEF Told
  <2> QED
    BY <1>5, <2>1, <2>2, InterceptSays
<1>7. new \subseteq Lines(r, status)
  BY DEF Lines
<1> HIDE DEF new
<1>8. LinesShapeOf(r)'
  BY <1>2, <1>3, <1>4, <1>5, <1>6, NowTold
<1> QED
  BY <1>2, <1>4, <1>7, <1>8, RequestLogs

LEMMA HandleTells ==
    ASSUME SessionsIInv, WorkersIInv, NEW r \in Requests, HandleLogged(r) \/ GetUserLogged(r)
    PROVE  lines' \subseteq LogLine /\ LinesShape'
<1>1. CASE HandleLogged(r)
  <2>1. sreq[r].pc = "handle" /\ TypeOK
    BY <1>1 DEF HandleLogged, Handle, SessionsIInv
  <2>2. PICK status \in {200, 400, 500} : End(r, "save", status)
    BY <1>1, Zenon DEF HandleLogged, Handle
  <2>3. sreq'[r].status = status
    BY <2>1, <2>2, EndSays
  <2>4. PICK own \in SUBSET HandlerLines(r, status) : Log(own \cup Intercept(config, r, status))
    BY <1>1, <2>3 DEF HandleLogged
  <2>5. own \subseteq OwnLines(r)
    BY <2>4 DEF HandlerLines, OwnLines
  <2>6. sreq[r].pc \in {"login", "getUser", "handle"} /\ status \in Statuses /\ status # 0
    BY <2>1 DEF Statuses
  <2> QED
    BY <2>2, <2>4, <2>5, <2>6, HandlerTells, Zenon
<1>2. CASE GetUserLogged(r)
  <2>1. /\ sreq[r].pc = "getUser" /\ End(r, "save", 200)
        /\ Log(LogQuery(config, r) \cup Intercept(config, r, 200))
    BY <1>2 DEF GetUserLogged, GetUser
  <2>2. LogQuery(config, r) \subseteq OwnLines(r)
    BY DEF OwnLines
  <2>3. sreq[r].pc \in {"login", "getUser", "handle"} /\ 200 \in Statuses /\ 200 # 0
    BY <2>1 DEF Statuses
  <2> QED
    BY <2>1, <2>2, <2>3, HandlerTells, Zenon
<1> QED
  BY <1>1, <1>2

\* A log in that is refused has ended; one that is accepted has its line to come.
LEMMA LoginTells ==
    ASSUME SessionsIInv, WorkersIInv, NEW r \in Requests, LoginLogged(r)
    PROVE  lines' \subseteq LogLine /\ LinesShape'
<1> DEFINE status == LoginStatus(sreq[r])
<1>1. TypeOK /\ LinesShapeOf(r) /\ sreq[r] \in Request /\ sreq[r].pc = "login"
  BY DEF SessionsIInv, WorkersIInv, LinesShape, TypeOK, LoginLogged, Login
<1>2. status \in {200, 401, 405}
  BY DEF LoginStatus
<1>3. CASE status # 200
  <2> DEFINE own == LogQuery(config, r) \cup Write(config, "login", "warn", r)
  <2>1. End(r, "save", status)
    BY <1>3, Zenon DEF LoginLogged, Login
  <2>2. Log(LogQuery(config, r)
              \cup (Write(config, "login", "warn", r) \cup Intercept(config, r, status)))
    BY <1>3 DEF LoginLogged
  <2>3. Log(own \cup Intercept(config, r, status))
    BY <2>2 DEF Log
  <2>4. own \subseteq OwnLines(r)
    BY DEF OwnLines
  <2> HIDE DEF own, status
  <2>5. sreq[r].pc \in {"login", "getUser", "handle"} /\ status \in Statuses /\ status # 0
    BY <1>1, <1>2 DEF Statuses
  <2> QED
    BY <2>1, <2>3, <2>4, <2>5, HandlerTells, Zenon
<1>4. CASE status = 200
  <2>1. lines' = lines \cup LogQuery(config, r) /\ config' = config
    BY <1>4 DEF LoginLogged, Log
  <2>2. sreq' = [sreq EXCEPT ![r] = [sreq[r] EXCEPT !.pc = "getUser",
                                                    !.user = sreq[r].target]]
    BY <1>4, Zenon DEF LoginLogged, Login
  <2>3. /\ sreq'[r].pc = "getUser" /\ sreq'[r].handled = sreq[r].handled
        /\ \A q \in Requests : q # r => sreq'[q] = sreq[q]
    BY <1>1, <2>2 DEF TypeOK, Request
  <2>4. RequestLines(r) = {} /\ HandledShape(r)'
    BY <1>1, <2>3 DEF LinesShapeOf, HandledShape, Undecided
  <2>5. Told(r, LogQuery(config, r)) = {} /\ LogQuery(config, r) \subseteq Lines(r, 200)
    BY OnlyIntercepted DEF Told, Lines, OwnLines
  <2>6. sreq'[r].pc \in Undecided
    BY <2>3 DEF Undecided
  <2>7. LinesShapeOf(r)'
    BY <2>1, <2>4, <2>5, <2>6, StillUntold
  <2> QED
    BY <2>1, <2>3, <2>5, <2>7, RequestLogs
<1> QED
  BY <1>3, <1>4

\* A session that is destroyed is the end of a log out, or of a request that the
\* guard has refused, whether Redis has done it or not.
LEMMA DestroyTells ==
    ASSUME SessionsIInv, WorkersIInv, NEW r \in Requests, sreq[r].pc = "destroy",
           sreq' = [sreq EXCEPT ![r] = [@ EXCEPT !.pc = "answer", !.user = Null]],
           Log(DestroyLines(r))
    PROVE  lines' \subseteq LogLine /\ LinesShape'
<1> DEFINE new == DestroyLines(r)
<1>1. TypeOK /\ LinesShapeOf(r) /\ sreq[r] \in Request
  BY DEF SessionsIInv, WorkersIInv, LinesShape, TypeOK
<1>2. lines' = lines \cup new /\ config' = config
  BY DEF Log
<1>3. /\ sreq'[r].pc = "answer" /\ sreq'[r].status = sreq[r].status
      /\ sreq'[r].handled = sreq[r].handled
      /\ \A q \in Requests : q # r => sreq'[q] = sreq[q]
  BY <1>1 DEF TypeOK, Request
<1>4. RequestLines(r) = {} /\ (sreq[r].handled <=> sreq[r].status = 200)
  BY <1>1 DEF LinesShapeOf, HandledShape
<1>5. Told(r, new) = IF sreq[r].handled THEN Intercept(config, r, 204) ELSE {}
  BY InterceptSays DEF DestroyLines, Told
<1>6. new \subseteq Lines(r, 204)
  BY DEF Lines, DestroyLines
<1> HIDE DEF new
<1>7. LinesShapeOf(r)'
  <2>1. CASE sreq[r].handled
    BY <1>2, <1>3, <1>4, <1>5, <2>1, NowTold
  <2>2. CASE ~sreq[r].handled
    <3>1. HandledShape(r)'
      BY <1>3 DEF HandledShape
    <3> QED
      BY <1>2, <1>3, <1>4, <1>5, <2>2, <3>1, StillUntold
  <2> QED
    BY <2>1, <2>2
<1> QED
  BY <1>2, <1>3, <1>6, <1>7, RequestLogs

\* A query that fails, and Redis when it refuses.
LEMMA FailTells ==
    ASSUME SessionsIInv, WorkersIInv, NEW r \in Requests, FailLogged(r)
    PROVE  lines' \subseteq LogLine /\ LinesShape'
<1> DEFINE failed == LogQuery(config, r) \cup LogQueryError(config, r)
                        \cup LogException(config, r)
<1>1. TypeOK /\ LinesShapeOf(r)
  BY DEF SessionsIInv, WorkersIInv, LinesShape
<1>2. Log(FailLines(r))
  BY DEF FailLogged
<1>3. \/ sreq[r].pc \in {"serialize", "login", "getUser"} /\ End(r, "save", 500)
      \/ sreq[r].pc = "save" /\ Goto(r, "answer")
      \/ /\ sreq[r].pc = "destroy"
         /\ sreq' = [sreq EXCEPT ![r] = [@ EXCEPT !.pc = "answer", !.user = Null]]
  BY DEF FailLogged, Fail
<1>4. CASE sreq[r].pc \in {"login", "getUser"} /\ End(r, "save", 500)
  <2>1. sreq[r].handled
    BY <1>1, <1>4 DEF LinesShapeOf, HandledShape
  <2>2. FailLines(r) = failed \cup Intercept(config, r, 500)
    BY <1>4, <2>1 DEF FailLines
  <2>3. Log(failed \cup Intercept(config, r, 500))
    BY <1>2, <2>2 DEF Log
  <2>4. failed \subseteq OwnLines(r)
    BY DEF OwnLines
  <2>5. sreq[r].pc \in {"login", "getUser", "handle"} /\ 500 \in Statuses /\ 500 # 0
    BY <1>4 DEF Statuses
  <2> HIDE DEF failed
  <2> QED
    BY <1>4, <2>3, <2>4, <2>5, HandlerTells, ZenonT(30)
<1>5. CASE sreq[r].pc = "serialize" /\ End(r, "save", 500)
  <2>1. RequestLines(r) = {} /\ ~sreq[r].handled
    BY <1>1, <1>5 DEF LinesShapeOf, HandledShape, Undecided
  <2>2. lines' = lines \cup failed /\ config' = config
    BY <1>2, <1>5, <2>1 DEF FailLines, Log
  <2>3. /\ sreq'[r].pc = "save" /\ ~sreq'[r].handled
        /\ \A q \in Requests : q # r => sreq'[q] = sreq[q]
    BY <1>1, <1>5, <2>1, EndSays
  <2>4. Told(r, failed) = {} /\ failed \subseteq Lines(r, 500)
    BY OnlyIntercepted DEF Told, Lines, OwnLines
  <2>5. HandledShape(r)'
    BY <2>3 DEF HandledShape
  <2> HIDE DEF failed
  <2>6. LinesShapeOf(r)'
    BY <2>1, <2>2, <2>3, <2>4, <2>5, StillUntold
  <2> QED
    BY <2>2, <2>3, <2>4, <2>6, RequestLogs
<1>6. CASE sreq[r].pc = "save" /\ Goto(r, "answer")
  <2>1. lines' = lines \cup {} /\ config' = config
    BY <1>2, <1>6 DEF FailLines, DestroyLines, Log
  <2>2. /\ sreq'[r].pc = "answer" /\ sreq'[r].status = sreq[r].status
        /\ sreq'[r].handled = sreq[r].handled
        /\ \A q \in Requests : q # r => sreq'[q] = sreq[q]
    BY <1>1, <1>6, GotoSays
  <2>3. Told(r, {}) = {} /\ {} \subseteq Lines(r, 500)
    BY DEF Told
  <2>4. LinesShapeOf(r)'
    BY <1>1, <1>6, <2>1, <2>2, <2>3, ToldBefore
  <2> QED
    BY <2>1, <2>2, <2>3, <2>4, RequestLogs
<1>7. CASE /\ sreq[r].pc = "destroy"
           /\ sreq' = [sreq EXCEPT ![r] = [@ EXCEPT !.pc = "answer", !.user = Null]]
  <2>1. FailLines(r) = DestroyLines(r)
    BY <1>7 DEF FailLines
  <2>2. Log(DestroyLines(r))
    BY <1>2, <2>1 DEF Log
  <2> QED
    BY <1>7, <2>2, DestroyTells
<1> QED
  BY <1>3, <1>4, <1>5, <1>6, <1>7

\* A step of request r that logs nothing.
LEMMA QuietStep ==
    ASSUME WorkersIInv, UNCHANGED <<config, lines>>, NEW r \in Requests,
           \A q \in Requests : q # r => sreq'[q] = sreq[q],
           \/ /\ sreq[r].pc \in {"idle", "load"} /\ sreq'[r].pc \in {"load", "serialize"}
              /\ sreq'[r].handled => sreq[r].handled
           \/ /\ sreq'[r].status = sreq[r].status /\ sreq'[r].handled = sreq[r].handled
              /\ \/ sreq[r].pc \in {"save", "answer"} /\ sreq'[r].pc \in {"answer", "done"}
                 \/ sreq'[r].pc = "failed"
    PROVE  lines' \subseteq LogLine /\ LinesShape'
<1>1. lines' = lines \cup {} /\ Told(r, {}) = {} /\ {} \subseteq Lines(r, 0)
  BY DEF Told
<1>2. LinesShapeOf(r)
  BY DEF WorkersIInv, LinesShape
<1>3. LinesShapeOf(r)'
  <2>1. CASE /\ sreq[r].pc \in {"idle", "load"} /\ sreq'[r].pc \in {"load", "serialize"}
             /\ sreq'[r].handled => sreq[r].handled
    <3>1. RequestLines(r) = {} /\ ~sreq'[r].handled
      BY <1>2, <2>1 DEF LinesShapeOf, HandledShape, Undecided
    <3>2. HandledShape(r)'
      BY <2>1, <3>1 DEF HandledShape
    <3> QED
      BY <1>1, <3>1, <3>2, StillUntold
  <2>2. CASE /\ sreq'[r].status = sreq[r].status /\ sreq'[r].handled = sreq[r].handled
             /\ \/ sreq[r].pc \in {"save", "answer"} /\ sreq'[r].pc \in {"answer", "done"}
                \/ sreq'[r].pc = "failed"
    BY <1>1, <1>2, <2>2, ToldBefore
  <2> QED
    BY <2>1, <2>2
<1> QED
  BY <1>1, <1>3, RequestLogs

LEMMA ReceiveTells ==
    ASSUME SessionsIInv, WorkersIInv, WorkerReceives
    PROVE  lines' \subseteq LogLine /\ LinesShape'
<1>1. PICK r \in Requests, d \in Devices, kind \in {"login", "use", "logout"},
           target \in Users \cup {Null}, right \in BOOLEAN :
           Receive(r, d, kind, target, right)
  BY DEF WorkerReceives, Receives
<1> DEFINE rec == [NoRequest EXCEPT
                      !.kind = kind, !.pc = "load", !.device = d,
                      !.sid = cookies[d], !.target = target, !.right = right]
<1>2. sreq' = [sreq EXCEPT ![r] = rec] /\ sreq[r].pc = "idle" /\ UNCHANGED <<config, lines>>
  BY <1>1 DEF Receive, WorkerReceives
<1>3. rec.pc = "load" /\ ~rec.handled
  BY DEF NoRequest
<1> HIDE DEF rec
<1>4. /\ sreq'[r].pc = "load" /\ ~sreq'[r].handled
      /\ \A q \in Requests : q # r => sreq'[q] = sreq[q]
  BY <1>2, <1>3 DEF SessionsIInv, TypeOK
<1> QED
  BY <1>2, <1>4, QuietStep

\* Loading and saving the session, and the answer.
LEMMA SilentlyTells ==
    ASSUME SessionsIInv, WorkersIInv, NEW r \in Requests,
           Silently(r) \/ Disconnect(r) \/ LoadFails(r)
    PROVE  lines' \subseteq LogLine /\ LinesShape'
<1>1. TypeOK /\ sreq[r] \in Request
  BY DEF SessionsIInv, TypeOK
<1>2. UNCHANGED <<config, lines>>
  BY DEF Silently, Disconnect, LoadFails, Release, workerVars
<1>3. CASE LoadSession(r)
  <2>1. /\ sreq[r].pc = "load" /\ sreq'[r].pc = "serialize"
        /\ sreq'[r].handled = sreq[r].handled
        /\ \A q \in Requests : q # r => sreq'[q] = sreq[q]
    BY <1>1, <1>3 DEF LoadSession, TypeOK, Request
  <2> QED
    BY <1>2, <2>1, QuietStep
<1>4. CASE SaveSession(r)
  <2>1. sreq[r].pc = "save" /\ Goto(r, "answer")
    BY <1>4 DEF SaveSession
  <2>2. /\ sreq'[r].pc = "answer" /\ sreq'[r].status = sreq[r].status
        /\ sreq'[r].handled = sreq[r].handled /\ \A q \in Requests : q # r => sreq'[q] = sreq[q]
    BY <1>1, <2>1, GotoSays
  <2> QED
    BY <1>2, <2>1, <2>2, QuietStep
<1>5. CASE Answer(r)
  <2>1. /\ sreq[r].pc = "answer" /\ sreq'[r].pc = "done" /\ sreq'[r].status = sreq[r].status
        /\ sreq'[r].handled = sreq[r].handled /\ \A q \in Requests : q # r => sreq'[q] = sreq[q]
    BY <1>1, <1>5 DEF Answer, TypeOK, Request
  <2> QED
    BY <1>2, <2>1, QuietStep
<1>6. CASE Abort(r)
  <2>1. Goto(r, "failed")
    BY <1>6 DEF Abort
  <2>2. /\ sreq'[r].pc = "failed" /\ sreq'[r].status = sreq[r].status
        /\ sreq'[r].handled = sreq[r].handled /\ \A q \in Requests : q # r => sreq'[q] = sreq[q]
    BY <1>1, <2>1, GotoSays
  <2> QED
    BY <1>2, <2>2, QuietStep
<1> QED
  BY <1>3, <1>4, <1>5, <1>6 DEF Silently, Disconnect, LoadFails

\* Workers, administrators and Redis: no request changes, and what is written
\* tells that a worker listens.
LEMMA OtherTells ==
    ASSUME WorkersIInv, config' = config, sreq' = sreq,
           \/ lines' = lines
           \/ \E w \in WorkerIds : lines' = lines \cup Write(config, "bootstrap", "info", w)
    PROVE  lines' \subseteq LogLine /\ LinesShape'
<1>1. PICK new : /\ lines' = lines \cup new
                 /\ new = {} \/ \E w \in WorkerIds : new = Write(config, "bootstrap", "info", w)
  BY DEF WorkersIInv, WorkersTypeOK
<1>2. \A line \in new : line \in LogLine /\ line.source = "bootstrap"
  <2> SUFFICES ASSUME NEW w \in WorkerIds, NEW line \in Write(config, "bootstrap", "info", w)
               PROVE  line \in LogLine /\ line.source = "bootstrap"
    BY <1>1
  <2>1. "bootstrap" \in Sources /\ "info" \in LogLevels
    BY DEF Sources, LogLevels
  <2> QED
    BY <2>1, WrittenIsLine
<1>3. lines' \subseteq LogLine
  BY <1>1, <1>2 DEF WorkersIInv, WorkersTypeOK
<1>4. ASSUME NEW r \in Requests PROVE LinesShapeOf(r)'
  <2>1. Told(r, new) = {}
    BY <1>2 DEF Told
  <2>2. RequestLines(r)' = RequestLines(r)
    BY <1>1, <2>1, RequestLinesGrow
  <2>3. Outcome(r)' = Outcome(r) /\ HandledShape(r)' = HandledShape(r)
    BY DEF Outcome, HandledShape
  <2>4. Shows(config, "info")' = Shows(config, "info") /\ Shows(config, "warn")' = Shows(config, "warn")
    BY DEF Shows
  <2> QED
    BY <2>2, <2>3, <2>4 DEF WorkersIInv, LinesShape, LinesShapeOf
<1> QED
  BY <1>3, <1>4 DEF LinesShape

\* Workers, the requests they serve, the errors and the configuration.
LEMMA ProcessTypes ==
    ASSUME WorkersTypeOK, [WorkersNext]_allVars
    PROVE  /\ workers' \in [WorkerIds -> WorkerStates]
           /\ owner' \in [Requests -> WorkerIds \cup {Null}]
           /\ reported' \subseteq RedisErrors
           /\ config' = config
<1> DEFINE Typed == /\ workers' \in [WorkerIds -> WorkerStates]
                    /\ owner' \in [Requests -> WorkerIds \cup {Null}]
                    /\ reported' \subseteq RedisErrors
                    /\ config' = config
<1>1. ASSUME UNCHANGED <<workers, reported, config>>,
             \/ owner' = owner
             \/ \E r \in Requests : owner' = [owner EXCEPT ![r] = Null]
      PROVE  Typed
  BY <1>1 DEF WorkersTypeOK
<1>2. ASSUME NEW w \in WorkerIds, Fork(w) \/ Bootstrap(w) PROVE Typed
  BY <1>2 DEF WorkersTypeOK, WorkerStates, Fork, Bootstrap
<1>3. ASSUME NEW w \in WorkerIds, NEW e \in RedisErrors, RedisError(w, e) PROVE Typed
  BY <1>3 DEF WorkersTypeOK, WorkerStates, RedisError
<1>4. ASSUME WorkerReceives PROVE Typed
  <2>1. PICK w \in WorkerIds :
            /\ owner' = [r \in Requests |->
                           IF sreq[r].pc = "idle" /\ sreq'[r].pc # "idle" THEN w ELSE owner[r]]
            /\ UNCHANGED <<workers, reported, config>>
    BY <1>4 DEF WorkerReceives
  <2> QED
    BY <2>1 DEF WorkersTypeOK
<1>5. ASSUME NEW r \in Requests, Serve(r) \/ FailLogged(r) PROVE Typed
  <2>1. \/ UNCHANGED <<workers, owner, reported, config>>
        \/ Release(r)
    BY <1>5 DEF Serve, SerializeLogged, HandleLogged, LoginLogged, GetUserLogged,
                DestroyLogged, Silently, FailLogged, Log, workerVars
  <2> QED
    BY <1>1, <2>1 DEF Release
<1>6. ASSUME NEW r \in Requests, Disconnect(r) \/ LoadFails(r) PROVE Typed
  <2>1. Release(r)
    BY <1>6 DEF Disconnect, LoadFails
  <2> QED
    BY <1>1, <2>1 DEF Release
<1>7. ASSUME UNCHANGED workerVars PROVE Typed
  BY <1>1, <1>7 DEF workerVars
<1> HIDE DEF Typed
<1>8. Typed
  BY <1>2, <1>3, <1>4, <1>5, <1>6, <1>7 DEF WorkersNext, allVars, workerVars
<1> QED
  BY <1>8 DEF Typed

LEMMA WorkersInitTells ==
    WorkersInit => WorkersIInv
<1> SUFFICES ASSUME WorkersInit PROVE WorkersIInv
  OBVIOUS
<1>1. SessionsIInv
  BY SessionsInit DEF WorkersInit
<1>2. "bootstrap" \in Sources /\ "info" \in LogLevels
  BY DEF Sources, LogLevels
<1>3. ASSUME NEW line \in lines
      PROVE  line \in LogLine /\ line.source = "bootstrap"
  <2>1. PICK w \in WorkerIds : line \in Write(config, "bootstrap", "info", w)
    BY <1>3 DEF WorkersInit
  <2> QED
    BY <1>2, <2>1, WrittenIsLine
<1>4. WorkersTypeOK
  BY <1>1, <1>3 DEF WorkersTypeOK, WorkersInit, WorkerStates, SessionsIInv
<1>5. LinesShape
  <2> SUFFICES ASSUME NEW r \in Requests PROVE LinesShapeOf(r)
    BY DEF LinesShape
  <2>1. RequestLines(r) = {}
    BY <1>3 DEF RequestLines
  <2>2. sreq[r].pc = "idle" /\ ~sreq[r].handled
    BY DEF WorkersInit, Init, NoRequest
  <2> QED
    BY <2>1, <2>2 DEF LinesShapeOf, HandledShape
<1> QED
  BY <1>4, <1>5 DEF WorkersIInv

LEMMA WorkersNextTells ==
    ASSUME SessionsIInv, TypeOK', WorkersIInv, [WorkersNext]_allVars
    PROVE  WorkersIInv'
<1> DEFINE Goal == lines' \subseteq LogLine /\ LinesShape'
<1>1. /\ workers' \in [WorkerIds -> WorkerStates]
      /\ owner' \in [Requests -> WorkerIds \cup {Null}]
      /\ reported' \subseteq RedisErrors
      /\ config' = config
  BY ProcessTypes DEF WorkersIInv
<1>2. ASSUME NEW w \in WorkerIds,
             Fork(w) \/ Bootstrap(w) \/ \E e \in RedisErrors : RedisError(w, e)
      PROVE  Goal
  <2>1. \/ lines' = lines
        \/ lines' = lines \cup Write(config, "bootstrap", "info", w)
    BY <1>2 DEF Fork, Bootstrap, RedisError
  <2>2. sreq' = sreq
    BY <1>2, ProcessesKeepSessions DEF vars
  <2> QED
    BY <1>1, <2>1, <2>2, OtherTells
<1>3. ASSUME WorkerReceives PROVE Goal
  BY <1>3, ReceiveTells
<1>4. ASSUME NEW r \in Requests, Serve(r) PROVE Goal
  <2>1. CASE DestroyLogged(r)
    BY <2>1, DestroyTells DEF DestroyLogged, DestroySession
  <2> QED
    BY <1>4, <2>1, SerializeTells, HandleTells, LoginTells, SilentlyTells DEF Serve
<1>5. ASSUME NEW r \in Requests, Disconnect(r) \/ FailLogged(r) \/ LoadFails(r) PROVE Goal
  BY <1>5, FailTells, SilentlyTells
<1>6. ASSUME (Deactivates \/ \E s \in SessionIds : Expire(s)), UNCHANGED workerVars
      PROVE  Goal
  <2>1. sreq' = sreq /\ lines' = lines
    BY <1>6 DEF Deactivates, Deactivate, Expire, workerVars
  <2> QED
    BY <1>1, <2>1, OtherTells
<1>7. ASSUME UNCHANGED allVars PROVE Goal
  BY <1>1, <1>7, OtherTells DEF allVars, vars, workerVars
<1> HIDE DEF Goal
<1>8. Goal
  BY <1>2, <1>3, <1>4, <1>5, <1>6, <1>7 DEF WorkersNext
<1>9. WorkersTypeOK'
  BY <1>1, <1>8 DEF Goal, WorkersIInv, WorkersTypeOK
<1> QED
  BY <1>8, <1>9 DEF Goal, WorkersIInv

\* What holds of the lines in every reachable state: each request has the line its
\* handler has left, or none.
THEOREM WorkersInvariant ==
    WorkersSpec => []WorkersIInv
<1>1. WorkersSpec => []SessionsIInv
  BY WorkersTakeSessionsSteps, SessionsInvariant, PTL
<1>2. SessionsIInv => TypeOK
  BY DEF SessionsIInv
<1>3. SessionsIInv /\ TypeOK' /\ WorkersIInv /\ [WorkersNext]_allVars => WorkersIInv'
  BY WorkersNextTells
<1> QED
  BY <1>1, <1>2, <1>3, WorkersInitTells, PTL DEF WorkersSpec

\* Workers and lines keep their types.
THEOREM WorkersTypeCorrect ==
    WorkersSpec => []WorkersTypeOK
<1>1. WorkersIInv => WorkersTypeOK
  BY DEF WorkersIInv
<1> QED
  BY <1>1, WorkersInvariant, PTL

\* Whichever workers die and however handlers end: a request has at most one line
\* of the interceptor and only if it got to its handler, the line says success
\* exactly of those that had it, and those answered by their handler have one at
\* the levels that show it (logger.interceptor.ts:28 and :40).
THEOREM RequestLinesTellOutcomeAlways ==
    WorkersSpec => []RequestLinesTellOutcome
<1>1. LinesShape => RequestLinesTellOutcome
  <2> SUFFICES ASSUME LinesShape, NEW r \in Requests
               PROVE  /\ Cardinality(RequestLines(r)) <= 1
                      /\ \A line \in RequestLines(r) :
                            /\ sreq[r].handled
                            /\ line.level = "info" <=> sreq[r].status = 200
                      /\ /\ sreq[r].pc = "done" /\ sreq[r].handled
                         /\ Shows(config, IF sreq[r].status = 200 THEN "info" ELSE "warn")
                         => RequestLines(r) # {}
    BY DEF RequestLinesTellOutcome, RequestLines
  <2>1. LinesShapeOf(r)
    BY DEF LinesShape
  <2>2. Cardinality(RequestLines(r)) <= 1
    <3>1. RequestLines(r) \subseteq {Outcome(r)}
      BY <2>1 DEF LinesShapeOf
    <3>2. IsFiniteSet({Outcome(r)}) /\ Cardinality({Outcome(r)}) = 1
      BY FS_Singleton
    <3> QED
      BY <3>1, <3>2, FS_Subset
  <2>3. \A line \in RequestLines(r) : line.level = "info" <=> sreq[r].status = 200
    BY <2>1 DEF LinesShapeOf, Outcome
  <2> QED
    BY <2>1, <2>2, <2>3 DEF LinesShapeOf
<1>2. WorkersIInv => LinesShape
  BY DEF WorkersIInv
<1> QED
  BY <1>1, <1>2, WorkersInvariant, PTL

=============================================================================
