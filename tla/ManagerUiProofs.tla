--------------------------- MODULE ManagerUiProofs ---------------------------
(***************************************************************************)
(* Proofs about the manager, for any keys and any number of changes that   *)
(* others make.                                                            *)
(***************************************************************************)
EXTENDS ManagerUi, SequenceTheorems, TLAPS

\* Which thread is where: the window outlives its worker, a call comes from a
\* running worker, the end of the worker is in the queue or being joined.
ThreadInv ==
  /\ window = "destroyed" => worker = "none" /\ ~ done /\ ~ joining
  /\ worker = "none" <=> ~ busy
  /\ call # "none" => worker = "running" /\ answer = "none"
  /\ answer # "none" => worker = "running"
  /\ dialog # "none" => call = dialog
  /\ done \/ joining => worker = "ended"
  /\ ~ (done /\ joining)

Steps == UiSteps \cup {"begin", "register", "read", "sign", "row", "remove", "policy",
                      "enforce"}

\* The call and its answer are those of the worker's next step; a yes to a
\* question of consent is recorded as one.
CallInv ==
  /\ todo \in Seq(Steps)
  /\ worker # "running" => todo = <<>>
  /\ call # "none" => todo # <<>> /\ call = Step
  /\ answer # "none" => todo # <<>> /\ Step \in UiSteps
  /\ answer = "yes" /\ Step \in Consents => Step \in confirmed
  /\ warned => "filter" \in confirmed

Changes == {"register", "remove", "enforce"}

\* A step the worker takes before its i-th one.
Before(step, i) == \E j \in 1 .. i - 1 : todo[j] = step

\* A step that changes the account belongs to its operation, and the password
\* has been entered or will be asked for first.
PasswordInv ==
  \A i \in DOMAIN todo :
    /\ todo[i] \in Changes => Before("password", i) \/ "password" \in confirmed
    /\ todo[i] = "register" => op = "add"
    /\ todo[i] = "remove" => op = "remove"
    /\ todo[i] = "enforce" => op \in {"enable", "disable"}

\* What the row means is not read again before the key is removed.
RowInv ==
  \A i \in DOMAIN todo : todo[i] = "remove" =>
    /\ ~ Before("read", i)
    /\ row # 0 => clicked = snapshot.keys[row]
    /\ Before("row", i) \/ row \in DOMAIN snapshot.keys

\* The warning about the only key comes after the status is read.
OneKeyInv ==
  op = "enable" => \A i \in DOMAIN todo : todo[i] = "enforce" =>
    /\ Before("oneKey", i) \/ (Len(snapshot.keys) = 1 => "oneKey" \in confirmed)
    /\ \A j \in 1 .. i - 1 : todo[j] = "read" =>
         \E k \in j + 1 .. i - 1 : todo[k] = "oneKey"

ProgramInv == CallInv /\ PasswordInv /\ RowInv /\ OneKeyInv

IInv == TypeOK /\ ThreadInv /\ ProgramInv /\ RemovesTheKeyClicked /\ ChangesAreConfirmed

-----------------------------------------------------------------------------
(* Lists of keys.                                                           *)

LEMMA KeyListType ==
  ASSUME NEW l \in KeyLists
  PROVE  /\ l \in Seq(Keys) /\ Len(l) \in 0 .. 2 /\ DOMAIN l = 1 .. Len(l)
         /\ \A i \in DOMAIN l : l[i] \in Keys
<1>1. CASE l = <<>>
  BY <1>1
<1>2. CASE \E k \in Keys : l = <<k>>
  BY <1>2
<1>3. CASE l \in Keys \X Keys
  <2>1. PICK a \in Keys, b \in Keys : l = <<a, b>>
    BY <1>3
  <2>2. QED  BY <2>1
<1>4. QED  BY <1>1, <1>2, <1>3 DEF KeyLists

LEMMA WithoutType ==
  ASSUME NEW l \in KeyLists, NEW k
  PROVE  Without(l, k) \in KeyLists
<1> DEFINE i == CHOOSE j \in DOMAIN l : l[j] = k
           before == SubSeq(l, 1, i - 1)
           after == SubSeq(l, i + 1, Len(l))
<1>1. SUFFICES ASSUME Has(l, k)
               PROVE  before \o after \in KeyLists
  BY DEF Without
<1>2. i \in DOMAIN l
  BY <1>1 DEF Has
<1> HIDE DEF i
<1>3. l \in Seq(Keys) /\ Len(l) \in 0 .. 2 /\ DOMAIN l = 1 .. Len(l)
  BY KeyListType
<1>4. /\ i \in Int /\ Len(l) \in Int /\ 1 <= i /\ i <= Len(l) /\ Len(l) \in {1, 2}
      /\ \A j \in 1 .. i - 1 : l[j] \in Keys
      /\ \A j \in i + 1 .. Len(l) : l[j] \in Keys
  BY <1>2, <1>3
<1>5. before \in Seq(Keys) /\ Len(before) = i - 1
  <2>1. /\ before \in Seq(Keys)
        /\ Len(before) = IF 1 <= i - 1 THEN i - 1 - 1 + 1 ELSE 0
    BY <1>4, SubSeqProperties
  <2> HIDE DEF before
  <2>2. QED  BY <2>1, <1>4
<1>6. after \in Seq(Keys) /\ Len(after) = Len(l) - i
  <2>1. /\ after \in Seq(Keys)
        /\ Len(after) = IF i + 1 <= Len(l) THEN Len(l) - (i + 1) + 1 ELSE 0
    BY <1>4, SubSeqProperties
  <2> HIDE DEF after
  <2>2. QED  BY <2>1, <1>4
<1> HIDE DEF before, after
<1>7. before \o after \in Seq(Keys) /\ Len(before \o after) = Len(l) - 1
  <2>1. /\ before \o after \in Seq(Keys)
        /\ Len(before \o after) = Len(before) + Len(after)
    BY <1>5, <1>6, ConcatProperties
  <2>2. QED  BY <2>1, <1>4, <1>5, <1>6
<1> DEFINE w == before \o after
<1> HIDE DEF w
<1>8. w \in Seq(Keys) /\ Len(w) \in {0, 1}
  BY <1>4, <1>7 DEF w
<1>9. CASE Len(w) = 0
  BY <1>8, <1>9, EmptySeq DEF KeyLists, w
<1>10. CASE Len(w) = 1
  <2>1. w[1] \in Keys /\ w = <<w[1]>>
    BY <1>8, <1>10
  <2>2. QED  BY <2>1 DEF KeyLists, w
<1>11. QED  BY <1>8, <1>9, <1>10

-----------------------------------------------------------------------------
(* The programs.                                                            *)

LEMMA Programs ==
  /\ Program["add"] = <<"password", "label", "begin", "choose", "pin", "register",
                        "message", "read", "show">>
  /\ Program["test"] = <<"begin", "choose", "pin", "sign", "message", "read", "show">>
  /\ Program["remove"] = <<"row", "password", "remove", "read", "show">>
  /\ Program["enable"] = <<"read", "show", "policy", "oneKey", "filter", "password",
                           "enforce", "read", "show">>
  /\ Program["disable"] = <<"read", "show", "policy", "password", "enforce", "read",
                            "show">>
  /\ Program["refresh"] = <<"read", "show">>
BY DEF Program

\* Where the programs change the account, and what comes before.
LEMMA ProgramParts ==
  ASSUME NEW o \in Operations, NEW p, p = Program[o]
  PROVE  /\ p \in Seq(Steps) /\ p # <<>>
         /\ \A i \in DOMAIN p :
              /\ p[i] = "register" => o = "add" /\ i = 6 /\ p[1] = "password"
              /\ p[i] = "remove" => /\ o = "remove" /\ i = 3
                                    /\ p[1] = "row" /\ p[2] = "password"
              /\ p[i] = "enforce" =>
                   \/ /\ o = "enable" /\ i = 7 /\ p[6] = "password" /\ p[4] = "oneKey"
                      /\ \A j \in 1 .. 6 : p[j] = "read" => j = 1
                   \/ o = "disable" /\ i = 5 /\ p[4] = "password"
<1>1. CASE o = "add"
  <2>1. p = <<"password", "label", "begin", "choose", "pin", "register", "message",
              "read", "show">>
    BY <1>1, Programs
  <2>2. p \in Seq(Steps) /\ p # <<>>
    BY <2>1 DEF Steps, UiSteps, Dialogs, Questions
  <2>3. /\ DOMAIN p = 1 .. 9
        /\ p[1] = "password" /\ p[2] = "label" /\ p[3] = "begin" /\ p[4] = "choose"
        /\ p[5] = "pin" /\ p[6] = "register" /\ p[7] = "message" /\ p[8] = "read"
        /\ p[9] = "show"
    BY <2>1
  <2> QED  BY <1>1, <2>2, <2>3
<1>2. CASE o = "test"
  <2>1. p = <<"begin", "choose", "pin", "sign", "message", "read", "show">>
    BY <1>2, Programs
  <2>2. p \in Seq(Steps) /\ p # <<>>
    BY <2>1 DEF Steps, UiSteps, Dialogs, Questions
  <2>3. /\ DOMAIN p = 1 .. 7
        /\ p[1] = "begin" /\ p[2] = "choose" /\ p[3] = "pin" /\ p[4] = "sign"
        /\ p[5] = "message" /\ p[6] = "read" /\ p[7] = "show"
    BY <2>1
  <2> QED  BY <1>2, <2>2, <2>3
<1>3. CASE o = "remove"
  <2>1. p = <<"row", "password", "remove", "read", "show">>
    BY <1>3, Programs
  <2>2. p \in Seq(Steps) /\ p # <<>>
    BY <2>1 DEF Steps, UiSteps, Dialogs, Questions
  <2>3. /\ DOMAIN p = 1 .. 5
        /\ p[1] = "row" /\ p[2] = "password" /\ p[3] = "remove" /\ p[4] = "read"
        /\ p[5] = "show"
    BY <2>1
  <2> QED  BY <1>3, <2>2, <2>3
<1>4. CASE o = "enable"
  <2>1. p = <<"read", "show", "policy", "oneKey", "filter", "password", "enforce",
              "read", "show">>
    BY <1>4, Programs
  <2>2. p \in Seq(Steps) /\ p # <<>>
    BY <2>1 DEF Steps, UiSteps, Dialogs, Questions
  <2>3. /\ DOMAIN p = 1 .. 9
        /\ p[1] = "read" /\ p[2] = "show" /\ p[3] = "policy" /\ p[4] = "oneKey"
        /\ p[5] = "filter" /\ p[6] = "password" /\ p[7] = "enforce" /\ p[8] = "read"
        /\ p[9] = "show"
    BY <2>1
  <2> QED  BY <1>4, <2>2, <2>3
<1>5. CASE o = "disable"
  <2>1. p = <<"read", "show", "policy", "password", "enforce", "read", "show">>
    BY <1>5, Programs
  <2>2. p \in Seq(Steps) /\ p # <<>>
    BY <2>1 DEF Steps, UiSteps, Dialogs, Questions
  <2>3. /\ DOMAIN p = 1 .. 7
        /\ p[1] = "read" /\ p[2] = "show" /\ p[3] = "policy" /\ p[4] = "password"
        /\ p[5] = "enforce" /\ p[6] = "read" /\ p[7] = "show"
    BY <2>1
  <2> QED  BY <1>5, <2>2, <2>3
<1>6. CASE o = "refresh"
  <2>1. p = <<"read", "show">>
    BY <1>6, Programs
  <2>2. p \in Seq(Steps) /\ p # <<>>
    BY <2>1 DEF Steps, UiSteps, Dialogs, Questions
  <2>3. DOMAIN p = 1 .. 2 /\ p[1] = "read" /\ p[2] = "show"
    BY <2>1
  <2> QED  BY <1>6, <2>2, <2>3
<1>7. QED  BY <1>1, <1>2, <1>3, <1>4, <1>5, <1>6 DEF Operations

-----------------------------------------------------------------------------
(* What is left of a program.                                               *)

StepsInv == todo \in Seq(Steps) /\ PasswordInv /\ RowInv /\ OneKeyInv

\* What the invariants of the program speak of, but for the program.
about == <<op, row, clicked, snapshot>>

\* Nothing is changed by what follows an error.
LEMMA NothingLeft ==
  ASSUME todo' \in {<<>>, <<"message">>, <<"unavailable", "message">>}
  PROVE  StepsInv'
<1>1. todo' \in Seq(Steps) /\ \A i \in DOMAIN todo' : todo'[i] \notin Changes
  <2>1. CASE todo' = <<>>
    BY <2>1
  <2>2. CASE todo' = <<"message">>
    BY <2>2 DEF Steps, UiSteps, Dialogs, Changes
  <2>3. CASE todo' = <<"unavailable", "message">>
    BY <2>3 DEF Steps, UiSteps, Dialogs, Changes
  <2>4. QED  BY <2>1, <2>2, <2>3
<1>2. QED  BY <1>1 DEF StepsInv, PasswordInv, RowInv, OneKeyInv, Changes

\* The user agrees to something while the worker waits.
LEMMA SameProgram ==
  ASSUME StepsInv, todo' = todo, UNCHANGED about, confirmed \subseteq confirmed'
  PROVE  StepsInv'
BY DEF StepsInv, PasswordInv, RowInv, OneKeyInv, Before, about

\* A step is taken.
LEMMA OneStepLess ==
  ASSUME StepsInv, todo # <<>>, todo' = Tail(todo),
         UNCHANGED <<op, row, clicked, confirmed>>,
         snapshot' = snapshot \/ Step = "read",
         Step = "password" => "password" \in confirmed,
         Step = "row" => row \in DOMAIN snapshot.keys,
         Step = "oneKey" /\ Len(snapshot.keys) = 1 => "oneKey" \in confirmed
  PROVE  StepsInv'
<1>1. /\ todo' \in Seq(Steps) /\ Len(todo) \in Nat /\ DOMAIN todo = 1 .. Len(todo)
      /\ DOMAIN todo' = 1 .. Len(todo) - 1 /\ Step = todo[1]
      /\ \A i \in 1 .. Len(todo) - 1 : todo'[i] = todo[i + 1] /\ i + 1 \in DOMAIN todo
  BY HeadTailProperties DEF StepsInv, Step
<1>2. ASSUME NEW i \in DOMAIN todo', NEW s, Before(s, i + 1)
      PROVE  Before(s, i)' \/ Step = s
  <2>1. PICK j \in 1 .. i : todo[j] = s
    BY <1>1, <1>2 DEF Before
  <2>2. CASE j = 1
    BY <2>1, <2>2, <1>1
  <2>3. CASE j # 1
    <3>1. j - 1 \in 1 .. i - 1 /\ todo'[j - 1] = s
      BY <2>1, <2>3, <1>1
    <3>2. QED  BY <3>1, <1>1 DEF Before
  <2>4. QED  BY <2>2, <2>3
<1>3. ASSUME NEW i \in DOMAIN todo', NEW s, Before(s, i)'
      PROVE  Before(s, i + 1)
  <2>1. PICK j \in 1 .. i - 1 : todo'[j] = s
    BY <1>3 DEF Before
  <2>2. j + 1 \in 1 .. (i + 1) - 1 /\ todo[j + 1] = s
    BY <2>1, <1>1
  <2>3. QED  BY <2>2 DEF Before
<1>4. PasswordInv'
  <2> SUFFICES ASSUME NEW i \in DOMAIN todo'
               PROVE  /\ todo'[i] \in Changes => Before("password", i)' \/ "password" \in confirmed
                      /\ todo'[i] = "register" => op = "add"
                      /\ todo'[i] = "remove" => op = "remove"
                      /\ todo'[i] = "enforce" => op \in {"enable", "disable"}
    BY DEF PasswordInv
  <2>1. i + 1 \in DOMAIN todo /\ todo'[i] = todo[i + 1]
    BY <1>1
  <2>2. QED  BY <2>1, <1>2 DEF StepsInv, PasswordInv
<1>5. RowInv'
  <2> SUFFICES ASSUME NEW i \in DOMAIN todo', todo'[i] = "remove"
               PROVE  /\ ~ Before("read", i)'
                      /\ row # 0 => clicked = snapshot'.keys[row]
                      /\ Before("row", i)' \/ row \in DOMAIN snapshot'.keys
    BY DEF RowInv
  <2>1. i + 1 \in DOMAIN todo /\ todo[i + 1] = "remove" /\ 1 \in 1 .. (i + 1) - 1
    BY <1>1
  <2>2. /\ ~ Before("read", i + 1)
        /\ row # 0 => clicked = snapshot.keys[row]
        /\ Before("row", i + 1) \/ row \in DOMAIN snapshot.keys
    BY <2>1 DEF StepsInv, RowInv
  <2>3. snapshot' = snapshot
    BY <2>1, <2>2, <1>1 DEF Before
  <2>4. QED  BY <2>2, <2>3, <1>2, <1>3
<1>6. OneKeyInv'
  <2> SUFFICES ASSUME op = "enable", NEW i \in DOMAIN todo', todo'[i] = "enforce"
               PROVE  /\ \/ Before("oneKey", i)'
                         \/ Len(snapshot'.keys) = 1 => "oneKey" \in confirmed
                      /\ \A j \in 1 .. i - 1 : todo'[j] = "read" =>
                           \E k \in j + 1 .. i - 1 : todo'[k] = "oneKey"
    BY DEF OneKeyInv
  <2>1. i + 1 \in DOMAIN todo /\ todo[i + 1] = "enforce" /\ i \in Nat
    BY <1>1
  <2>2. /\ Before("oneKey", i + 1) \/ (Len(snapshot.keys) = 1 => "oneKey" \in confirmed)
        /\ \A j \in 1 .. i : todo[j] = "read" => \E k \in j + 1 .. i : todo[k] = "oneKey"
    BY <2>1 DEF StepsInv, OneKeyInv
  <2>3. ASSUME NEW j \in 1 .. i, todo[j] = "read"
        PROVE  \E k \in j .. i - 1 : todo'[k] = "oneKey"
    <3>1. PICK k \in j + 1 .. i : todo[k] = "oneKey"
      BY <2>2, <2>3
    <3>2. k - 1 \in j .. i - 1 /\ todo'[k - 1] = "oneKey"
      BY <3>1, <2>1, <1>1
    <3>3. QED  BY <3>2
  <2>4. ASSUME NEW j \in 1 .. i - 1, todo'[j] = "read"
        PROVE  \E k \in j + 1 .. i - 1 : todo'[k] = "oneKey"
    <3>1. j + 1 \in 1 .. i /\ todo[j + 1] = "read"
      BY <2>1, <2>4, <1>1
    <3>2. QED  BY <3>1, <2>3
  <2>5. CASE Step = "read"
    <3>1. 1 \in 1 .. i /\ todo[1] = "read"
      BY <2>5, <2>1, <1>1
    <3>2. Before("oneKey", i)'
      BY <3>1, <2>3 DEF Before
    <3>3. QED  BY <3>2, <2>4
  <2>6. CASE Step # "read"
    BY <2>6, <2>2, <2>4, <1>2
  <2>7. QED  BY <2>5, <2>6
<1>7. QED  BY <1>1, <1>4, <1>5, <1>6 DEF StepsInv

\* A new key is asked for its PIN twice.
LEMMA PinTwice ==
  ASSUME StepsInv, todo # <<>>, Step = "pin", todo' = [todo EXCEPT ![1] = "pinAgain"],
         UNCHANGED <<about, confirmed>>
  PROVE  StepsInv'
<1>1. /\ todo' \in Seq(Steps) /\ Len(todo) \in Nat
      /\ DOMAIN todo' = DOMAIN todo /\ DOMAIN todo = 1 .. Len(todo)
      /\ todo[1] = "pin" /\ todo'[1] = "pinAgain"
      /\ \A i \in DOMAIN todo : i # 1 => todo'[i] = todo[i]
  BY ExceptSeq DEF StepsInv, Step, Steps, UiSteps, Dialogs, Questions
<1>2. ASSUME NEW i \in DOMAIN todo, NEW s, s # "pin", s # "pinAgain"
      PROVE  Before(s, i)' <=> Before(s, i)
  BY <1>1, <1>2 DEF Before
<1>3. PasswordInv'
  BY <1>1, <1>2 DEF StepsInv, PasswordInv, Changes, about
<1>4. RowInv'
  BY <1>1, <1>2 DEF StepsInv, RowInv, about
<1>5. OneKeyInv'
  <2>1. ASSUME op = "enable", NEW i \in DOMAIN todo, todo[i] = "enforce",
               NEW j \in 1 .. i - 1, todo'[j] = "read"
        PROVE  \E k \in j + 1 .. i - 1 : todo'[k] = "oneKey"
    <3>1. j \in DOMAIN todo /\ todo[j] = "read"
      BY <2>1, <1>1
    <3>2. PICK k \in j + 1 .. i - 1 : todo[k] = "oneKey"
      BY <3>1, <2>1 DEF StepsInv, OneKeyInv
    <3>3. todo'[k] = "oneKey"
      BY <3>2, <2>1, <1>1
    <3>4. QED  BY <3>2, <3>3
  <2>2. ASSUME NEW i \in DOMAIN todo, todo'[i] = "enforce"
        PROVE  todo[i] = "enforce"
    BY <2>2, <1>1
  <2>3. QED  BY <2>1, <2>2, <1>1, <1>2 DEF StepsInv, OneKeyInv, about
<1>6. QED  BY <1>1, <1>3, <1>4, <1>5 DEF StepsInv

-----------------------------------------------------------------------------
(* The window's thread and the user.                                        *)

LEMMA StatusType ==
  ASSUME NEW s \in Statuses
  PROVE  /\ s.keys \in KeyLists /\ Len(s.keys) \in 0 .. 2
         /\ DOMAIN s.keys = 1 .. Len(s.keys)
         /\ \A i \in 1 .. Len(s.keys) : s.keys[i] \in Keys
<1>1. s.keys \in KeyLists
  BY DEF Statuses
<1>2. QED  BY <1>1, KeyListType

LEMMA NoChangeType ==
  NoChange \in [op : Operations \cup {"none"}, key : Keys \cup {None},
                foreign : BOOLEAN, single : BOOLEAN, moved : BOOLEAN]
BY DEF NoChange

LEMMA SameTypes ==
  ASSUME TypeOK
  PROVE  /\ UNCHANGED account => AccountOK'
         /\ UNCHANGED ui => UiOK'
         /\ UNCHANGED <<queue, dialog>> => QueueOK'
         /\ UNCHANGED <<worker, operation, call, answer>> => WorkerOK'
         /\ UNCHANGED history => HistoryOK'
<1>1. UNCHANGED account => AccountOK'
  BY DEF TypeOK, AccountOK, account
<1>2. UNCHANGED ui => UiOK'
  BY DEF TypeOK, UiOK, ui
<1>3. UNCHANGED <<queue, dialog>> => QueueOK'
  BY DEF TypeOK, QueueOK, queue
<1>4. UNCHANGED <<worker, operation, call, answer>> => WorkerOK'
  BY DEF TypeOK, WorkerOK, operation
<1>5. UNCHANGED history => HistoryOK'
  BY DEF TypeOK, HistoryOK, history
<1>6. QED  BY <1>1, <1>2, <1>3, <1>4, <1>5

LEMMA StartKeepsInv ==
  ASSUME IInv, window = "open", ~ joining, NEW o \in Operations, MayStart(o),
         StartOperation(o), initial' \in BOOLEAN
  PROVE  IInv'
<1> USE DEF IInv
<1>1. /\ selection # 0 => status.keys[selection] \in Keys
      /\ selection \in 0 .. 2
  BY StatusType DEF TypeOK, UiOK
<1>2. TypeOK'
  <2>1. AccountOK'
    BY DEF TypeOK, AccountOK, StartOperation, account
  <2>2. UiOK'
    BY DEF TypeOK, UiOK, StartOperation, Buttons
  <2>3. QueueOK'
    BY DEF TypeOK, QueueOK, StartOperation
  <2>4. WorkerOK'
    BY <1>1 DEF TypeOK, WorkerOK, UiOK, StartOperation
  <2>5. HistoryOK'
    BY <1>1, NoChangeType DEF HistoryOK, StartOperation
  <2>6. QED  BY <2>1, <2>2, <2>3, <2>4, <2>5 DEF TypeOK
<1>3. ThreadInv'
  BY DEF ThreadInv, MayStart, StartOperation
<1>4. worker = "none" /\ call = "none" /\ answer = "none"
  BY DEF MayStart, ThreadInv
<1>5. todo' \in Seq(Steps) /\ todo' # <<>>
  BY ProgramParts DEF StartOperation
<1>6. CallInv'
  BY <1>4, <1>5 DEF CallInv, StartOperation
<1>7. PasswordInv'
  BY ProgramParts DEF StartOperation, PasswordInv, Before, Changes
<1>8. RowInv'
  <2> SUFFICES ASSUME NEW i \in DOMAIN todo', todo'[i] = "remove"
               PROVE  /\ ~ Before("read", i)'
                      /\ row' # 0 => clicked' = snapshot'.keys[row']
                      /\ Before("row", i)'
    BY DEF RowInv
  <2>1. i = 3 /\ todo'[1] = "row" /\ todo'[2] = "password"
    BY ProgramParts DEF StartOperation
  <2>2. QED  BY <2>1 DEF StartOperation, Before
<1>9. OneKeyInv'
  <2> SUFFICES ASSUME o = "enable", NEW i \in DOMAIN todo', todo'[i] = "enforce"
               PROVE  /\ Before("oneKey", i)'
                      /\ \A j \in 1 .. i - 1 : todo'[j] = "read" =>
                           \E k \in j + 1 .. i - 1 : todo'[k] = "oneKey"
    BY DEF OneKeyInv, StartOperation
  <2>1. /\ i = 7 /\ todo'[4] = "oneKey"
        /\ \A j \in 1 .. 6 : todo'[j] = "read" => j = 1
    BY ProgramParts DEF StartOperation
  <2>2. Before("oneKey", i)'
    BY <2>1 DEF Before
  <2>3. QED  BY <2>1, <2>2
<1>10. RemovesTheKeyClicked' /\ ChangesAreConfirmed'
  BY DEF StartOperation, RemovesTheKeyClicked, ChangesAreConfirmed, NoChange
<1>11. QED  BY <1>2, <1>3, <1>6, <1>7, <1>8, <1>9, <1>10 DEF ProgramInv

\* What the window's thread does to itself leaves the worker alone.
LEMMA WindowKeepsInv ==
  ASSUME IInv,
         UNCHANGED <<account, worker, todo, operation, call, answer, history>>,
         TypeOK', ThreadInv'
  PROVE  IInv'
<1> USE DEF IInv
<1>1. CallInv'
  BY DEF CallInv, Step, operation, history, ProgramInv
<1>2. StepsInv'
  BY SameProgram DEF ProgramInv, CallInv, StepsInv, operation, history, about
<1>3. RemovesTheKeyClicked' /\ ChangesAreConfirmed'
  BY DEF RemovesTheKeyClicked, ChangesAreConfirmed, history
<1>4. QED  BY <1>1, <1>2, <1>3 DEF ProgramInv, StepsInv

LEMMA ClickKeepsInv ==
  ASSUME IInv, NEW o \in Operations, Click(o)
  PROVE  IInv'
BY StartKeepsInv DEF Click, Free, IInv, TypeOK, QueueOK

LEMMA InitialRefreshKeepsInv ==
  ASSUME IInv, InitialRefresh
  PROVE  IInv'
<1>1. CASE MayStart("refresh")
  <2>1. "refresh" \in Operations
    BY DEF Operations
  <2>2. StartOperation("refresh") /\ initial' \in BOOLEAN
    BY <1>1 DEF InitialRefresh
  <2>3. QED  BY <2>1, <2>2, <1>1, StartKeepsInv DEF InitialRefresh, Free
<1>2. CASE ~ MayStart("refresh")
  <2>1. TypeOK'
    <3>1. AccountOK' /\ UiOK' /\ WorkerOK' /\ HistoryOK'
      BY <1>2, SameTypes DEF InitialRefresh, IInv
    <3>2. QueueOK'
      BY <1>2 DEF InitialRefresh, IInv, TypeOK, QueueOK
    <3>3. QED  BY <3>1, <3>2 DEF TypeOK
  <2>2. ThreadInv'
    BY <1>2 DEF InitialRefresh, IInv, ThreadInv, ui
  <2>3. QED  BY <2>1, <2>2, <1>2, WindowKeepsInv DEF InitialRefresh
<1>3. QED  BY <1>1, <1>2

LEMMA SelectKeepsInv ==
  ASSUME IInv, NEW i \in 1 .. Len(status.keys), Select(i)
  PROVE  IInv'
<1>1. i \in 0 .. Len(status.keys)
  BY StatusType DEF IInv, TypeOK, UiOK
<1>2. TypeOK'
  <2>1. AccountOK' /\ QueueOK' /\ WorkerOK' /\ HistoryOK'
    BY SameTypes DEF Select, IInv
  <2>2. UiOK'
    BY <1>1 DEF Select, IInv, TypeOK, UiOK, Buttons, Operations
  <2>3. QED  BY <2>1, <2>2 DEF TypeOK
<1>3. ThreadInv'
  BY DEF Select, IInv, ThreadInv, queue
<1>4. QED  BY <1>2, <1>3, WindowKeepsInv DEF Select

LEMMA CloseKeepsInv ==
  ASSUME IInv, Close
  PROVE  IInv'
<1>1. TypeOK'
  <2>1. AccountOK' /\ QueueOK' /\ WorkerOK' /\ HistoryOK'
    BY SameTypes DEF Close, IInv
  <2>2. UiOK'
    BY DEF Close, CloseWindow, IInv, TypeOK, UiOK
  <2>3. QED  BY <2>1, <2>2 DEF TypeOK
<1>2. ThreadInv'
  BY DEF Close, CloseWindow, IInv, TypeOK, UiOK, QueueOK, WorkerOK, ThreadInv, queue
<1>3. QED  BY <1>1, <1>2, WindowKeepsInv DEF Close

LEMMA OperationDoneKeepsInv ==
  ASSUME IInv, OperationDone
  PROVE  IInv'
<1>1. TypeOK'
  <2>1. AccountOK' /\ UiOK' /\ WorkerOK' /\ HistoryOK'
    BY SameTypes DEF OperationDone, IInv
  <2>2. QueueOK'
    BY DEF OperationDone, IInv, TypeOK, QueueOK
  <2>3. QED  BY <2>1, <2>2 DEF TypeOK
<1>2. ThreadInv'
  BY DEF OperationDone, IInv, TypeOK, QueueOK, ThreadInv, ui, Free
<1>3. QED  BY <1>1, <1>2, WindowKeepsInv DEF OperationDone

LEMMA JoinedKeepsInv ==
  ASSUME IInv, Joined
  PROVE  IInv'
<1> USE DEF IInv
<1>1. TypeOK'
  <2>1. AccountOK'
    BY SameTypes DEF Joined
  <2>2. UiOK'
    BY DEF Joined, TypeOK, UiOK, Buttons, Operations
  <2>3. QueueOK'
    BY DEF Joined, TypeOK, QueueOK
  <2>4. snapshot' \in Statuses
    BY DEF Joined, NoStatus, Statuses, KeyLists
  <2>5. WorkerOK'
    <3>1. row' = 0 /\ op' = "none" /\ warned' = FALSE
      BY DEF Joined
    <3>2. /\ worker' \in {"none", "running", "ended"} /\ call' \in UiSteps \cup {"none"}
          /\ answer' \in {"none", "yes", "no"}
      BY DEF Joined, TypeOK, WorkerOK
    <3>3. row' \in 0 .. 2
      BY <3>1
    <3>4. warned' \in BOOLEAN
      BY <3>1
    <3>5. op' \in Operations \cup {"none"}
      BY <3>1
    <3>6. QED  BY <2>4, <3>2, <3>3, <3>4, <3>5 DEF WorkerOK
  <2>6. HistoryOK'
    BY NoChangeType DEF Joined, HistoryOK
  <2>7. QED  BY <2>1, <2>2, <2>3, <2>5, <2>6 DEF TypeOK
<1>2. ThreadInv'
  BY DEF Joined, TypeOK, UiOK, QueueOK, ThreadInv
<1>3. todo' = <<>> /\ call' = "none" /\ answer' = "none" /\ ~ warned'
  BY DEF Joined, ThreadInv, ProgramInv, CallInv
<1>4. StepsInv'
  BY <1>3, NothingLeft
<1>5. CallInv'
  BY <1>3, <1>4 DEF CallInv, StepsInv
<1>6. RemovesTheKeyClicked' /\ ChangesAreConfirmed'
  BY DEF Joined, RemovesTheKeyClicked, ChangesAreConfirmed, NoChange
<1>7. QED  BY <1>1, <1>2, <1>4, <1>5, <1>6 DEF ProgramInv, StepsInv

LEMMA TakeCallKeepsInv ==
  ASSUME IInv, TakeCall
  PROVE  IInv'
<1> USE DEF IInv
<1>1. TypeOK'
  <2>1. AccountOK' /\ HistoryOK'
    BY SameTypes DEF TakeCall
  <2>2. QueueOK'
    BY DEF TakeCall, TypeOK, QueueOK, queue
  <2>3. WorkerOK'
    BY DEF TakeCall, TypeOK, WorkerOK, operation, Skipped
  <2>4. loaded' \in BOOLEAN /\ status' \in Statuses /\ selection' \in 0 .. Len(status'.keys)
    <3>1. CASE call = "show" /\ Update
      BY <3>1, StatusType DEF Update, TypeOK, UiOK, WorkerOK
    <3>2. CASE UNCHANGED <<status, selection>> /\ loaded' \in {loaded, FALSE}
      BY <3>2 DEF TypeOK, UiOK
    <3>3. QED  BY <3>1, <3>2 DEF TakeCall, Update
  <2>5. UiOK'
    BY <2>4 DEF TakeCall, TypeOK, UiOK
  <2>6. QED  BY <2>1, <2>2, <2>3, <2>5 DEF TypeOK
<1>2. ThreadInv'
  BY DEF TakeCall, ThreadInv, Skipped, queue
<1>3. CallInv'
  BY DEF TakeCall, ThreadInv, CallInv, ProgramInv, Skipped, Step, operation, history,
         TypeOK, WorkerOK
<1>4. StepsInv'
  BY SameProgram DEF TakeCall, ProgramInv, CallInv, StepsInv, operation, history, about
<1>5. RemovesTheKeyClicked' /\ ChangesAreConfirmed'
  BY DEF TakeCall, RemovesTheKeyClicked, ChangesAreConfirmed, history
<1>6. QED  BY <1>1, <1>2, <1>3, <1>4, <1>5 DEF ProgramInv, StepsInv

LEMMA AnswerDialogKeepsInv ==
  ASSUME IInv, NEW a \in {"yes", "no"}, AnswerDialog(a)
  PROVE  IInv'
<1> USE DEF IInv
<1>1. TypeOK'
  <2>1. AccountOK' /\ UiOK'
    BY SameTypes DEF AnswerDialog
  <2>2. QueueOK'
    BY DEF AnswerDialog, TypeOK, QueueOK, queue
  <2>3. WorkerOK'
    BY DEF AnswerDialog, TypeOK, WorkerOK, operation
  <2>4. HistoryOK'
    BY DEF AnswerDialog, TypeOK, HistoryOK
  <2>5. QED  BY <2>1, <2>2, <2>3, <2>4 DEF TypeOK
<1>2. ThreadInv'
  BY DEF AnswerDialog, ThreadInv, ui, queue
<1>3. confirmed \subseteq confirmed'
  BY DEF AnswerDialog
<1>4. CallInv'
  <2>1. /\ call = dialog /\ call # "none" /\ call = Step /\ todo # <<>>
        /\ worker = "running" /\ Step \in UiSteps
    BY DEF AnswerDialog, ThreadInv, CallInv, ProgramInv, TypeOK, WorkerOK
  <2>2. answer' = "yes" /\ Step \in Consents => Step \in confirmed'
    BY <2>1 DEF AnswerDialog
  <2>3. QED
    BY <2>1, <2>2, <1>3 DEF AnswerDialog, CallInv, ProgramInv, Step, operation
<1>5. StepsInv'
  BY <1>3, SameProgram DEF AnswerDialog, ProgramInv, CallInv, StepsInv, operation, about
<1>6. RemovesTheKeyClicked' /\ ChangesAreConfirmed'
  BY <1>3 DEF AnswerDialog, RemovesTheKeyClicked, ChangesAreConfirmed
<1>7. QED  BY <1>1, <1>2, <1>4, <1>5, <1>6 DEF ProgramInv, StepsInv

LEMMA ElsewhereKeepsInv ==
  ASSUME IInv, Elsewhere
  PROVE  IInv'
<1> USE DEF IInv
<1>1. elsewhere' \in 0 .. MaxElsewhere
  BY ManagerAssumption DEF Elsewhere, TypeOK, AccountOK
<1>2. TypeOK'
  <2>1. AccountOK'
    BY <1>1 DEF Elsewhere, TypeOK, AccountOK
  <2>2. UiOK' /\ QueueOK' /\ WorkerOK' /\ HistoryOK'
    BY SameTypes DEF Elsewhere
  <2>3. QED  BY <2>1, <2>2 DEF TypeOK
<1>3. ThreadInv'
  BY DEF Elsewhere, ThreadInv, ui, queue
<1>4. CallInv'
  BY DEF Elsewhere, CallInv, ProgramInv, Step, operation, history
<1>5. StepsInv'
  BY SameProgram DEF Elsewhere, ProgramInv, CallInv, StepsInv, operation, history, about
<1>6. RemovesTheKeyClicked' /\ ChangesAreConfirmed'
  BY DEF Elsewhere, RemovesTheKeyClicked, ChangesAreConfirmed, history
<1>7. QED  BY <1>2, <1>3, <1>4, <1>5, <1>6 DEF ProgramInv, StepsInv

-----------------------------------------------------------------------------
(* The worker.                                                              *)

\* How a step ends when the worker has no answer to fetch.
LEMMA WorkerTakesStep ==
  ASSUME IInv, worker = "running", call = "none", answer = "none", todo # <<>>,
         InWorker, UNCHANGED <<worker, op, row, answer, warned>>,
         \/ Continue /\ (snapshot' = snapshot \/ Step = "read")
              /\ (Step = "row" => row \in DOMAIN snapshot.keys)
              /\ Step # "password"
              /\ (Step = "oneKey" => Len(snapshot.keys) # 1)
         \/ todo' \in {<<>>, <<"message">>, <<"unavailable", "message">>} /\ UNCHANGED call
         \/ Asked /\ Step \in UiSteps /\ UNCHANGED snapshot
  PROVE  ThreadInv' /\ ProgramInv' /\ call' \in UiSteps \cup {"none"}
<1> USE DEF IInv
<1>1. call' \in UiSteps \cup {"none"} /\ (call' # "none" => call' = Step /\ todo' = todo)
  BY DEF Continue, Asked
<1>2. ThreadInv'
  BY <1>1 DEF ThreadInv, InWorker, ui, queue
<1>3. StepsInv'
  <2>1. CASE Continue /\ (snapshot' = snapshot \/ Step = "read")
               /\ (Step = "row" => row \in DOMAIN snapshot.keys)
               /\ Step # "password"
               /\ (Step = "oneKey" => Len(snapshot.keys) # 1)
    BY <2>1, OneStepLess DEF ProgramInv, CallInv, StepsInv, Continue, InWorker
  <2>2. CASE todo' \in {<<>>, <<"message">>, <<"unavailable", "message">>}
    BY <2>2, NothingLeft
  <2>3. CASE Asked /\ UNCHANGED snapshot
    BY <2>3, SameProgram DEF ProgramInv, CallInv, StepsInv, Asked, InWorker, about
  <2>4. QED  BY <2>1, <2>2, <2>3
<1>4. CallInv'
  BY <1>1, <1>3 DEF CallInv, StepsInv, ProgramInv, InWorker, Step
<1>5. QED  BY <1>1, <1>2, <1>3, <1>4 DEF ProgramInv, StepsInv

\* A step that only asks, looks at something, or gives up.
LEMMA QuietKeepsInv ==
  ASSUME IInv, worker = "running", call = "none", answer = "none", todo # <<>>,
         InWorker, UNCHANGED <<account, worker, operation, answer, last>>,
         \/ Continue /\ (Step = "row" => row \in DOMAIN snapshot.keys)
              /\ Step # "password"
              /\ (Step = "oneKey" => Len(snapshot.keys) # 1)
         \/ Quit \/ Complain
         \/ Asked /\ Step \in UiSteps
  PROVE  IInv'
<1>1. ThreadInv' /\ ProgramInv' /\ call' \in UiSteps \cup {"none"}
  BY WorkerTakesStep DEF operation, Quit, Complain, Asked
<1>2. TypeOK'
  <2>1. AccountOK' /\ UiOK' /\ QueueOK' /\ HistoryOK'
    BY SameTypes DEF IInv, InWorker, history
  <2>2. WorkerOK'
    BY <1>1 DEF IInv, TypeOK, WorkerOK, operation
  <2>3. QED  BY <2>1, <2>2 DEF TypeOK
<1>3. RemovesTheKeyClicked' /\ ChangesAreConfirmed'
  BY DEF IInv, RemovesTheKeyClicked, ChangesAreConfirmed, InWorker
<1>4. QED  BY <1>1, <1>2, <1>3 DEF IInv

LEMMA AskKeepsInv ==
  ASSUME IInv, Ask
  PROVE  IInv'
BY QuietKeepsInv DEF Ask, At, UiSteps, Dialogs, Questions

LEMMA CheckPolicyKeepsInv ==
  ASSUME IInv, CheckPolicy
  PROVE  IInv'
BY QuietKeepsInv DEF CheckPolicy, At

LEMMA AskOneKeyKeepsInv ==
  ASSUME IInv, AskOneKey
  PROVE  IInv'
BY QuietKeepsInv DEF AskOneKey, At, UiSteps, Dialogs, Questions

LEMMA AskFilterKeepsInv ==
  ASSUME IInv, AskFilter
  PROVE  IInv'
BY QuietKeepsInv DEF AskFilter, At, UiSteps, Dialogs, Questions

LEMMA ChooseKeepsInv ==
  ASSUME IInv, Choose
  PROVE  IInv'
BY QuietKeepsInv DEF Choose, At, UiSteps, Dialogs, Questions

LEMMA NoEffectKeepsInv ==
  ASSUME IInv, NoEffect
  PROVE  IInv'
BY QuietKeepsInv DEF NoEffect, At

LEMMA NoPinKeepsInv ==
  ASSUME IInv, NoPin
  PROVE  IInv'
BY QuietKeepsInv DEF NoPin, At

LEMMA CheckRowKeepsInv ==
  ASSUME IInv, CheckRow
  PROVE  IInv'
BY QuietKeepsInv DEF CheckRow, At

LEMMA ReadKeepsInv ==
  ASSUME IInv, Read
  PROVE  IInv'
<1>1. ThreadInv' /\ ProgramInv' /\ call' \in UiSteps \cup {"none"}
  BY WorkerTakesStep DEF Read, At, Continue
<1>2. TypeOK'
  <2>1. AccountOK' /\ UiOK' /\ QueueOK' /\ HistoryOK'
    BY SameTypes DEF IInv, Read, InWorker, history
  <2>2. [keys |-> keys, enforced |-> enforced] \in Statuses
    BY DEF IInv, TypeOK, AccountOK, Statuses
  <2>3. WorkerOK'
    BY <1>1, <2>2 DEF IInv, Read, TypeOK, WorkerOK
  <2>4. QED  BY <2>1, <2>3 DEF TypeOK
<1>3. RemovesTheKeyClicked' /\ ChangesAreConfirmed'
  BY DEF IInv, Read, RemovesTheKeyClicked, ChangesAreConfirmed, InWorker
<1>4. QED  BY <1>1, <1>2, <1>3 DEF IInv

LEMMA ReturnedKeepsInv ==
  ASSUME IInv, Returned
  PROVE  IInv'
<1> USE DEF IInv
<1>1. todo # <<>> /\ call' = "none" /\ answer' = "none"
  BY DEF Returned, ProgramInv, CallInv, Continue, Quit, Complain
<1>2. TypeOK'
  <2>1. AccountOK' /\ UiOK' /\ QueueOK' /\ HistoryOK'
    BY SameTypes DEF Returned, InWorker, history
  <2>2. WorkerOK'
    BY <1>1 DEF Returned, TypeOK, WorkerOK
  <2>3. QED  BY <2>1, <2>2 DEF TypeOK
<1>3. ThreadInv'
  BY <1>1 DEF ThreadInv, Returned, InWorker, ui, queue
<1>4. answer = "yes" /\ Step \in Consents => Step \in confirmed
  BY DEF ProgramInv, CallInv
<1>5. StepsInv'
  <2>1. CASE Quit \/ Complain
    BY <2>1, NothingLeft DEF Quit, Complain
  <2>2. CASE Step = "pin" /\ todo' = [todo EXCEPT ![1] = "pinAgain"]
    BY <2>2, <1>1, PinTwice
    DEF ProgramInv, CallInv, StepsInv, Returned, InWorker, about
  <2>3. CASE Continue /\ ~ (Step \in Questions /\ answer = "no")
    <3>1. answer = "yes" \/ Step \notin Questions
      BY <2>3 DEF Returned, TypeOK, WorkerOK
    <3>2. Step \in {"password", "oneKey"} => Step \in confirmed
      BY <3>1, <1>4 DEF Questions, Consents
    <3>3. Step # "row"
      BY DEF Returned, ProgramInv, CallInv, UiSteps, Dialogs, Questions
    <3>4. QED
      BY <2>3, <3>2, <3>3, <1>1, OneStepLess
      DEF ProgramInv, CallInv, StepsInv, Returned, InWorker, Continue
  <2>4. QED  BY <2>1, <2>2, <2>3 DEF Returned
<1>6. CallInv'
  BY <1>1, <1>4, <1>5 DEF CallInv, StepsInv, ProgramInv, Returned, InWorker, Consents
<1>7. RemovesTheKeyClicked' /\ ChangesAreConfirmed'
  BY DEF Returned, RemovesTheKeyClicked, ChangesAreConfirmed, InWorker
<1>8. QED  BY <1>2, <1>3, <1>5, <1>6, <1>7 DEF ProgramInv, StepsInv

\* A step that may change the account: it goes on, or reports an error.
LEMMA ChangeKeepsInv ==
  ASSUME IInv, worker = "running", call = "none", answer = "none", todo # <<>>,
         Step \in Changes, InWorker, UNCHANGED <<worker, operation, answer>>,
         Continue \/ Complain,
         AccountOK', HistoryOK', RemovesTheKeyClicked', ChangesAreConfirmed'
  PROVE  IInv'
<1>1. Step \notin {"row", "password", "oneKey"}
  BY DEF Changes
<1>2. ThreadInv' /\ ProgramInv' /\ call' \in UiSteps \cup {"none"}
  BY <1>1, WorkerTakesStep DEF operation, Complain
<1>3. TypeOK'
  <2>1. UiOK' /\ QueueOK'
    BY SameTypes DEF IInv, InWorker
  <2>2. WorkerOK'
    BY <1>2 DEF IInv, TypeOK, WorkerOK, operation
  <2>3. QED  BY <2>1, <2>2 DEF TypeOK
<1>4. QED  BY <1>2, <1>3 DEF IInv

\* What the invariants say of the next step when it changes the account.
LEMMA NextChange ==
  ASSUME IInv, todo # <<>>
  PROVE  /\ Step \in Changes => "password" \in confirmed
         /\ Step = "register" => op = "add"
         /\ Step = "remove" => /\ op = "remove" /\ row \in DOMAIN snapshot.keys
                               /\ clicked = snapshot.keys[row]
         /\ Step = "enforce" => /\ op \in {"enable", "disable"}
                                /\ op = "enable" /\ Len(snapshot.keys) = 1 =>
                                     "oneKey" \in confirmed
<1>1. 1 \in DOMAIN todo /\ Step = todo[1] /\ \A s : ~ Before(s, 1)
  BY HeadTailProperties DEF IInv, ProgramInv, CallInv, Step, Before
<1>2. /\ Step \in Changes => "password" \in confirmed
      /\ Step = "register" => op = "add"
      /\ Step = "remove" => op = "remove"
      /\ Step = "enforce" => op \in {"enable", "disable"}
  BY <1>1 DEF IInv, ProgramInv, PasswordInv
<1>3. Step = "remove" => row \in DOMAIN snapshot.keys /\ clicked = snapshot.keys[row]
  <2>1. row \in DOMAIN snapshot.keys => row # 0
    BY StatusType DEF IInv, TypeOK, WorkerOK
  <2>2. QED  BY <2>1, <1>1 DEF IInv, ProgramInv, RowInv
<1>4. Step = "enforce" /\ op = "enable" /\ Len(snapshot.keys) = 1 => "oneKey" \in confirmed
  BY <1>1 DEF IInv, ProgramInv, OneKeyInv
<1>5. QED  BY <1>2, <1>3, <1>4

LEMMA RegisterKeepsInv ==
  ASSUME IInv, Register
  PROVE  IInv'
<1>1. /\ worker = "running" /\ call = "none" /\ answer = "none" /\ todo # <<>>
      /\ Step = "register" /\ InWorker /\ UNCHANGED <<worker, operation, answer>>
      /\ Continue \/ Complain
  BY DEF Register, At, Outcome
<1>2. op = "add" /\ "password" \in confirmed /\ UNCHANGED <<clicked, confirmed>>
  BY <1>1, NextChange DEF Changes, InWorker
<1>3. AccountOK'
  BY DEF Register, IInv, TypeOK, AccountOK
<1>4. CASE UNCHANGED last
  <2>1. HistoryOK' /\ RemovesTheKeyClicked' /\ ChangesAreConfirmed'
    BY <1>2, <1>4 DEF IInv, TypeOK, HistoryOK, RemovesTheKeyClicked, ChangesAreConfirmed
  <2>2. QED  BY <1>1, <1>3, <2>1, ChangeKeepsInv DEF Changes
<1>5. CASE \E k \in Keys : last' = [NoChange EXCEPT !.op = op, !.key = k]
  <2>1. PICK k \in Keys :
          last' = [op |-> "add", key |-> k, foreign |-> FALSE, single |-> FALSE,
                   moved |-> FALSE]
    BY <1>2, <1>5 DEF NoChange
  <2>2. HistoryOK'
    BY <1>2, <2>1 DEF IInv, TypeOK, HistoryOK, Operations
  <2>3. RemovesTheKeyClicked' /\ ChangesAreConfirmed'
    BY <1>2, <2>1 DEF RemovesTheKeyClicked, ChangesAreConfirmed
  <2>4. QED  BY <1>1, <1>3, <2>2, <2>3, ChangeKeepsInv DEF Changes
<1>6. QED  BY <1>4, <1>5 DEF Register

LEMMA RemoveKeepsInv ==
  ASSUME IInv, Remove
  PROVE  IInv'
<1>1. /\ worker = "running" /\ call = "none" /\ answer = "none" /\ todo # <<>>
      /\ Step = "remove" /\ InWorker /\ UNCHANGED <<worker, operation, answer>>
      /\ Continue \/ Complain
  BY DEF Remove, At, Outcome
<1>2. /\ op = "remove" /\ "password" \in confirmed /\ UNCHANGED <<clicked, confirmed>>
      /\ clicked = KeyToRemove /\ KeyToRemove \in Keys
  <2>1. row \in DOMAIN snapshot.keys => KeyToRemove \in Keys
    BY StatusType DEF IInv, TypeOK, WorkerOK, KeyToRemove
  <2>2. QED  BY <2>1, <1>1, NextChange DEF Changes, InWorker, KeyToRemove
<1>3. AccountOK'
  BY WithoutType DEF Remove, IInv, TypeOK, AccountOK
<1>4. CASE UNCHANGED last
  <2>1. HistoryOK' /\ RemovesTheKeyClicked' /\ ChangesAreConfirmed'
    BY <1>2, <1>4 DEF IInv, TypeOK, HistoryOK, RemovesTheKeyClicked, ChangesAreConfirmed
  <2>2. QED  BY <1>1, <1>3, <2>1, ChangeKeepsInv DEF Changes
<1>5. CASE last' = [NoChange EXCEPT !.op = op, !.key = KeyToRemove]
  <2>1. last' = [op |-> "remove", key |-> KeyToRemove, foreign |-> FALSE,
                 single |-> FALSE, moved |-> FALSE]
    BY <1>2, <1>5 DEF NoChange
  <2>2. HistoryOK'
    BY <1>2, <2>1 DEF IInv, TypeOK, HistoryOK, Operations
  <2>3. RemovesTheKeyClicked' /\ ChangesAreConfirmed'
    BY <1>2, <2>1 DEF RemovesTheKeyClicked, ChangesAreConfirmed
  <2>4. QED  BY <1>1, <1>3, <2>2, <2>3, ChangeKeepsInv DEF Changes
<1>6. QED  BY <1>4, <1>5 DEF Remove

LEMMA EnforceKeepsInv ==
  ASSUME IInv, Enforce
  PROVE  IInv'
<1>1. /\ worker = "running" /\ call = "none" /\ answer = "none" /\ todo # <<>>
      /\ Step = "enforce" /\ InWorker /\ UNCHANGED <<worker, operation, answer>>
      /\ Continue \/ Complain
  BY DEF Enforce, At, Outcome
<1>2. /\ op \in {"enable", "disable"} /\ "password" \in confirmed
      /\ UNCHANGED <<clicked, confirmed>>
      /\ op = "enable" /\ Len(snapshot.keys) = 1 => "oneKey" \in confirmed
      /\ warned => "filter" \in confirmed
  BY <1>1, NextChange DEF Changes, InWorker, IInv, ProgramInv, CallInv
<1>3. AccountOK'
  BY DEF Enforce, IInv, TypeOK, AccountOK
<1>4. CASE UNCHANGED last
  <2>1. HistoryOK' /\ RemovesTheKeyClicked' /\ ChangesAreConfirmed'
    BY <1>2, <1>4 DEF IInv, TypeOK, HistoryOK, RemovesTheKeyClicked, ChangesAreConfirmed
  <2>2. QED  BY <1>1, <1>3, <2>1, ChangeKeepsInv DEF Changes
<1>5. CASE /\ op = "enable" => Allowed
           /\ last' = [NoChange EXCEPT !.op = op, !.foreign = foreign,
                                       !.single = Len(keys) = 1,
                                       !.moved = keys # snapshot.keys]
  <2> DEFINE single == Len(keys) = 1
             moved == keys # snapshot.keys
  <2>1. last' = [op |-> op, key |-> None, foreign |-> foreign, single |-> single,
                 moved |-> moved]
    BY <1>5 DEF NoChange
  <2>2. single \in BOOLEAN /\ moved \in BOOLEAN /\ foreign \in BOOLEAN
    BY DEF IInv, TypeOK, AccountOK
  <2>3. HistoryOK'
    BY <1>2, <2>1, <2>2 DEF IInv, TypeOK, HistoryOK, Operations
  <2>4. RemovesTheKeyClicked'
    BY <1>2, <2>1 DEF RemovesTheKeyClicked
  <2>5. ChangesAreConfirmed'
    <3>1. single /\ ~ moved /\ op = "enable" => "oneKey" \in confirmed
      BY <1>2
    <3>2. QED  BY <1>2, <1>5, <2>1, <3>1 DEF ChangesAreConfirmed, Allowed
  <2>6. QED  BY <1>1, <1>3, <2>3, <2>4, <2>5, ChangeKeepsInv DEF Changes
<1>6. QED  BY <1>4, <1>5 DEF Enforce

LEMMA PostKeepsInv ==
  ASSUME IInv, Post
  PROVE  IInv'
<1> USE DEF IInv
<1>1. TypeOK'
  <2>1. AccountOK' /\ UiOK' /\ HistoryOK'
    BY SameTypes DEF Post
  <2>2. QueueOK' /\ WorkerOK'
    BY DEF Post, TypeOK, QueueOK, WorkerOK, operation
  <2>3. QED  BY <2>1, <2>2 DEF TypeOK
<1>2. ThreadInv'
  BY DEF Post, ThreadInv, ui
<1>3. CallInv'
  BY DEF Post, CallInv, ProgramInv, Step, operation, history
<1>4. StepsInv'
  BY SameProgram DEF Post, ProgramInv, CallInv, StepsInv, operation, history, about
<1>5. RemovesTheKeyClicked' /\ ChangesAreConfirmed'
  BY DEF Post, RemovesTheKeyClicked, ChangesAreConfirmed, history
<1>6. QED  BY <1>1, <1>2, <1>3, <1>4, <1>5 DEF ProgramInv, StepsInv

-----------------------------------------------------------------------------
(* The theorems.                                                            *)

LEMMA InitHasInv ==
  ASSUME Init
  PROVE  IInv
<1>1. NoStatus \in Statuses /\ Len(NoStatus.keys) = 0
  BY DEF NoStatus, Statuses, KeyLists
<1>2. TypeOK
  <2>1. AccountOK
    <3>1. /\ keys \in KeyLists /\ enforced \in BOOLEAN /\ foreign \in BOOLEAN
          /\ elsewhere = 0
      BY DEF Init
    <3>2. QED  BY <3>1, ManagerAssumption DEF AccountOK
  <2>2. UiOK
    <3>1. /\ window = "open" /\ busy = FALSE /\ closePending = FALSE /\ loaded = FALSE
          /\ status = NoStatus /\ selection = 0 /\ enabled = {"refresh"}
      BY DEF Init
    <3>2. busy \in BOOLEAN /\ closePending \in BOOLEAN /\ loaded \in BOOLEAN
      BY <3>1
    <3>3. status \in Statuses /\ selection \in 0 .. Len(status.keys)
      BY <3>1, <1>1
    <3>4. enabled \subseteq Operations
      BY <3>1 DEF Operations
    <3>5. window \in {"open", "destroyed"}
      BY <3>1
    <3>6. QED  BY <3>2, <3>3, <3>4, <3>5 DEF UiOK
  <2>3. QueueOK
    BY DEF Init, QueueOK
  <2>4. WorkerOK
    <3>1. /\ worker = "none" /\ op = "none" /\ snapshot = NoStatus /\ row = 0
          /\ warned = FALSE /\ call = "none" /\ answer = "none"
      BY DEF Init
    <3>2. row \in 0 .. 2
      BY <3>1
    <3>3. warned \in BOOLEAN
      BY <3>1
    <3>4. snapshot \in Statuses
      BY <3>1, <1>1
    <3>5. /\ worker \in {"none", "running", "ended"} /\ op \in Operations \cup {"none"}
          /\ call \in UiSteps \cup {"none"} /\ answer \in {"none", "yes", "no"}
      BY <3>1
    <3>6. QED  BY <3>2, <3>3, <3>4, <3>5 DEF WorkerOK
  <2>5. HistoryOK
    BY NoChangeType DEF Init, HistoryOK
  <2>6. QED  BY <2>1, <2>2, <2>3, <2>4, <2>5 DEF TypeOK
<1>3. ThreadInv
  BY DEF Init, ThreadInv
<1>4. ProgramInv
  BY DEF Init, ProgramInv, CallInv, PasswordInv, RowInv, OneKeyInv
<1>5. RemovesTheKeyClicked /\ ChangesAreConfirmed
  BY DEF Init, RemovesTheKeyClicked, ChangesAreConfirmed, NoChange
<1>6. QED  BY <1>2, <1>3, <1>4, <1>5 DEF IInv

LEMMA NextKeepsInv ==
  ASSUME IInv, [Next]_vars
  PROVE  IInv'
<1>1. CASE Window
  BY <1>1, InitialRefreshKeepsInv, OperationDoneKeepsInv, JoinedKeepsInv,
     TakeCallKeepsInv DEF Window
<1>2. CASE User
  BY <1>2, AnswerDialogKeepsInv DEF User
<1>3. CASE Work
  BY <1>3, AskKeepsInv, ReturnedKeepsInv, ReadKeepsInv, CheckPolicyKeepsInv,
     AskOneKeyKeepsInv, AskFilterKeepsInv, ChooseKeepsInv, NoEffectKeepsInv,
     NoPinKeepsInv, CheckRowKeepsInv, RegisterKeepsInv, RemoveKeepsInv,
     EnforceKeepsInv, PostKeepsInv DEF Work
<1>4. CASE Close
  BY <1>4, CloseKeepsInv
<1>5. CASE Elsewhere
  BY <1>5, ElsewhereKeepsInv
<1>6. CASE \E o \in Operations : Click(o)
  BY <1>6, ClickKeepsInv
<1>7. CASE \E i \in 1 .. Len(status.keys) : Select(i)
  BY <1>7, SelectKeepsInv
<1>8. CASE UNCHANGED vars
  <2>1. UNCHANGED <<account, ui, queue, dialog, worker, todo, operation, call, answer,
                    history>>
    BY <1>8 DEF vars
  <2>2. TypeOK'
    BY <2>1, SameTypes DEF IInv, TypeOK
  <2>3. ThreadInv'
    BY <2>1 DEF IInv, ThreadInv, ui, queue
  <2>4. QED  BY <2>1, <2>2, <2>3, WindowKeepsInv
<1>9. QED  BY <1>1, <1>2, <1>3, <1>4, <1>5, <1>6, <1>7, <1>8 DEF Next

\* The inductive invariant of the manager: types, threads, what is left of the
\* worker's program, and the two promises about the account.
THEOREM Inductive == Spec => []IInv
<1>1. QED  BY InitHasInv, NextKeepsInv, PTL DEF Spec

\* Every variable keeps its type.
THEOREM TypeCorrect == Spec => []TypeOK
<1>1. IInv => TypeOK
  BY DEF IInv
<1>2. QED  BY <1>1, Inductive, PTL

\* The manager removes the key its user clicked, however the selection and the
\* list at the Broker move in the meantime.
THEOREM AlwaysRemovesTheKeyClicked == Spec => []RemovesTheKeyClicked
<1>1. IInv => RemovesTheKeyClicked
  BY DEF IInv
<1>2. QED  BY <1>1, Inductive, PTL

\* No operation changes the account without the password, nor enables MFA beside
\* another filter without that warning; an account that has a single key at that
\* moment got the warning about it, unless its keys are no longer those the
\* manager read (ChangePolicy).
THEOREM ChangesAreAlwaysConfirmed == Spec => []ChangesAreConfirmed
<1>1. IInv => ChangesAreConfirmed
  BY DEF IInv
<1>2. QED  BY <1>1, Inductive, PTL

\* The window is never gone while its worker can call it.
THEOREM WorkerAlwaysHasItsWindow == Spec => []WorkerHasItsWindow
<1>1. IInv => WorkerHasItsWindow
  BY DEF IInv, ThreadInv, WorkerHasItsWindow
<1>2. QED  BY <1>1, Inductive, PTL

\* A window that is being closed opens no dialog and starts no operation.
THEOREM ClosingNeverAsks == Spec => ClosingAsksNothing
<1> DEFINE Quiet == closePending => /\ dialog' \in {dialog, "none"}
                                    /\ worker = "none" => worker' = "none"
<1>1. [Next]_vars => Quiet
  <2> SUFFICES ASSUME [Next]_vars, closePending
               PROVE  /\ dialog' \in {dialog, "none"}
                      /\ worker = "none" => worker' = "none"
    OBVIOUS
  <2>1. CASE Window
    BY <2>1 DEF Window, InitialRefresh, MayStart, OperationDone, Joined, TakeCall, Skips
  <2>2. CASE User
    BY <2>2 DEF User, AnswerDialog
  <2>3. CASE Work
    BY <2>3 DEF Work, InWorker, At, Ask, Returned, Read, CheckPolicy, AskOneKey,
       AskFilter, Choose, NoEffect, NoPin, CheckRow, Register, Remove, Enforce, Post
  <2>4. CASE Close \/ Elsewhere
    BY <2>4 DEF Close, Elsewhere
  <2>5. CASE \E o \in Operations : Click(o)
    BY <2>5 DEF Click, MayStart
  <2>6. CASE \E i \in 1 .. Len(status.keys) : Select(i)
    BY <2>6 DEF Select
  <2>7. CASE UNCHANGED vars
    BY <2>7 DEF vars
  <2>8. QED  BY <2>1, <2>2, <2>3, <2>4, <2>5, <2>6, <2>7 DEF Next
<1>2. QED  BY <1>1, PTL DEF Spec, ClosingAsksNothing
=============================================================================
