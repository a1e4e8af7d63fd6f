------------------------------ MODULE ManagerUi ------------------------------
(***************************************************************************)
(* The manager, Manager/main.cpp: one window, one worker thread at a time, *)
(* and the account at the Broker, which another manager may change.        *)
(*                                                                         *)
(* The worker runs an operation as a sequence of steps.  Broker calls and  *)
(* the security key are its own; every dialog and every change of the      *)
(* window is a call to the window's thread, for which the worker waits.    *)
(* A call that fails may have been carried out: the client gives up after  *)
(* a deadline.  Progress texts are calls too, and change nothing here.     *)
(***************************************************************************)
EXTENDS Naturals, Sequences

CONSTANTS Keys, None,
          MaxElsewhere   \* bound: changes that others make

ASSUME ManagerAssumption == None \notin Keys /\ MaxElsewhere \in Nat

VARIABLES
  keys, enforced, foreign,  \* the account at the Broker; another filter is installed
  elsewhere,                \* the changes made by others
  window, busy, closePending, loaded,
  status, selection,        \* AppState::status, which the list shows; its row, or 0
  enabled,                  \* the enabled buttons
  initial, done,            \* WM_INITIAL_REFRESH, WM_OPERATION_DONE in the queue
  joining,                  \* the window's thread waits in join
  dialog,                   \* the dialog that is open
  worker, todo,             \* the thread and the steps it still has to take
  op, snapshot, row,        \* its Operation: status and selection when clicked
  warned,                   \* allowFilterConflict
  call, answer,             \* its call to the window's thread, and what it gave
  clicked, confirmed, last  \* history: the key of the row clicked, the consents
                            \* of the user, the change that was made

account == <<keys, enforced, foreign, elsewhere>>
ui == <<window, busy, closePending, loaded, status, selection, enabled>>
queue == <<initial, done, joining>>
operation == <<op, snapshot, row, warned>>
history == <<clicked, confirmed, last>>
vars == <<account, ui, queue, dialog, worker, todo, operation, call, answer, history>>

Operations == {"add", "test", "remove", "enable", "disable", "refresh"}
Program ==  \* each ends with Refresh
  [add |-> <<"password", "label", "begin", "choose", "pin", "register", "message",
             "read", "show">>,
   test |-> <<"begin", "choose", "pin", "sign", "message", "read", "show">>,
   remove |-> <<"row", "password", "remove", "read", "show">>,
   enable |-> <<"read", "show", "policy", "oneKey", "filter", "password", "enforce",
                "read", "show">>,
   disable |-> <<"read", "show", "policy", "password", "enforce", "read", "show">>,
   refresh |-> <<"read", "show">>]

Questions == {"password", "label", "choose", "pin", "pinAgain", "oneKey", "filter"}
Dialogs == Questions \cup {"message"}
Consents == {"password", "oneKey", "filter"}
UiSteps == Dialogs \cup {"show", "unavailable"}

KeyLists == {<<>>} \cup {<<k>> : k \in Keys}
              \cup {l \in Keys \X Keys : l[1] # l[2]}     \* bound: two keys
Statuses == [keys : KeyLists, enforced : BOOLEAN]
NoStatus == [keys |-> <<>>, enforced |-> FALSE]
NoChange == [op |-> "none", key |-> None, foreign |-> FALSE, single |-> FALSE,
             moved |-> FALSE]

Has(list, k) == \E i \in DOMAIN list : list[i] = k
Without(list, k) ==
  IF ~ Has(list, k) THEN list
  ELSE LET i == CHOOSE i \in DOMAIN list : list[i] = k
       IN  SubSeq(list, 1, i - 1) \o SubSeq(list, i + 1, Len(list))

Init ==
  /\ keys \in KeyLists /\ enforced \in {FALSE, keys # <<>>} /\ foreign \in BOOLEAN
  /\ elsewhere = 0
  /\ window = "open" /\ busy = FALSE /\ closePending = FALSE /\ loaded = FALSE
  /\ status = NoStatus /\ selection = 0 /\ enabled = {"refresh"}
  /\ initial = TRUE /\ done = FALSE /\ joining = FALSE /\ dialog = "none"
  /\ worker = "none" /\ todo = <<>>
  /\ op = "none" /\ snapshot = NoStatus /\ row = 0 /\ warned = FALSE
  /\ call = "none" /\ answer = "none"
  /\ clicked = None /\ confirmed = {} /\ last = NoChange

-----------------------------------------------------------------------------
(* The window's thread.                                                     *)

\* SetBusy.
Buttons(isBusy, st, sel) ==
  IF isBusy THEN {}
  ELSE {"refresh"} \cup
       (IF loaded THEN {"add"} ELSE {}) \cup
       (IF loaded /\ st.keys # <<>> THEN {"test"} ELSE {}) \cup
       (IF loaded /\ sel # 0 THEN {"remove"} ELSE {}) \cup
       (IF loaded /\ ~ st.enforced /\ st.keys # <<>> THEN {"enable"} ELSE {}) \cup
       (IF loaded /\ st.enforced THEN {"disable"} ELSE {})

\* DispatchCommand's guards.
MayStart(o) == ~ busy /\ ~ closePending /\ o \in enabled

\* StartOperation copies what the operation works on.
StartOperation(o) ==
  /\ busy' = TRUE /\ enabled' = Buttons(TRUE, status, selection)
  /\ worker' = "running" /\ todo' = Program[o]
  /\ op' = o /\ snapshot' = status /\ row' = selection /\ warned' = FALSE
  /\ clicked' = IF selection # 0 THEN status.keys[selection] ELSE None
  /\ confirmed' = {} /\ last' = NoChange
  /\ UNCHANGED <<account, window, closePending, loaded, status, selection, done, joining,
                 dialog, call, answer>>

Free == window = "open" /\ ~ joining

\* A click, which Windows delivers after the posted WM_INITIAL_REFRESH; when no
\* thread can be started everything is as before.
Click(o) ==
  /\ Free /\ dialog = "none" /\ ~ initial /\ MayStart(o)
  /\ StartOperation(o) /\ UNCHANGED initial

InitialRefresh ==
  /\ Free /\ initial /\ initial' = FALSE
  /\ IF MayStart("refresh")
       THEN StartOperation("refresh")
       ELSE UNCHANGED <<account, ui, done, joining, dialog, worker, todo, operation,
                        call, answer, history>>

\* The list stays enabled while the worker runs, and is not while it asks.
Select(i) ==
  /\ Free /\ dialog = "none" /\ ~ initial /\ selection' = i
  /\ enabled' = Buttons(busy, status, i)
  /\ UNCHANGED <<account, window, busy, closePending, loaded, status, queue, dialog,
                 worker, todo, operation, call, answer, history>>

DestroyAtOnce ==  \* mutant: the worker is not waited for
  window' = "destroyed" /\ UNCHANGED closePending

CloseWindow ==
  IF busy THEN closePending' = TRUE /\ UNCHANGED window
          ELSE window' = "destroyed" /\ UNCHANGED closePending

\* WM_CLOSE, also from outside while a dialog is open.
Close ==
  /\ Free /\ CloseWindow
  /\ UNCHANGED <<account, busy, loaded, status, selection, enabled, queue, dialog,
                 worker, todo, operation, call, answer, history>>

\* WM_OPERATION_DONE joins the worker.
OperationDone ==
  /\ Free /\ done /\ done' = FALSE /\ joining' = TRUE
  /\ UNCHANGED <<account, ui, initial, dialog, worker, todo, operation, call, answer,
                 history>>

Joined ==
  /\ joining /\ worker = "ended" /\ worker' = "none" /\ joining' = FALSE
  /\ busy' = FALSE /\ enabled' = Buttons(FALSE, status, selection)
  /\ window' = IF closePending THEN "destroyed" ELSE window
  /\ op' = "none" /\ snapshot' = NoStatus /\ row' = 0 /\ warned' = FALSE
  /\ clicked' = None /\ confirmed' = {} /\ last' = NoChange
  /\ UNCHANGED <<account, closePending, loaded, status, selection, initial, done,
                 dialog, todo, call, answer>>

\* What Refresh does to the window.
Update ==
  IF call = "show"
    THEN status' = snapshot /\ loaded' = TRUE /\ selection' = 0
    ELSE loaded' = FALSE /\ UNCHANGED <<status, selection>>

SkippedMeansYes == "yes"  \* mutant: the result of a skipped dialog is a consent

\* Prompt's false and ShowMessage's IDCANCEL, before the dialog answers.
Skipped == "no"

NeverSkips == FALSE  \* mutant: a closing window still takes calls

Skips == closePending

\* WM_UI_CALL: skipped when closing.  A dialog that cannot be made is as good
\* as a cancelled one.
TakeCall ==
  /\ Free /\ call # "none" /\ dialog = "none"
  /\ IF Skips
       THEN /\ answer' = Skipped /\ call' = "none"
            /\ UNCHANGED <<status, loaded, selection, dialog>>
       ELSE IF call \in Dialogs
              THEN /\ dialog' = call
                   /\ UNCHANGED <<answer, call, status, loaded, selection>>
              ELSE Update /\ answer' = "no" /\ call' = "none" /\ UNCHANGED dialog
  /\ UNCHANGED <<account, window, busy, closePending, enabled, queue, worker, todo,
                 operation, history>>

AnswerDialog(a) ==
  /\ dialog # "none" /\ dialog' = "none" /\ call' = "none" /\ answer' = a
  /\ confirmed' = IF a = "yes" THEN confirmed \cup ({dialog} \cap Consents) ELSE confirmed
  /\ UNCHANGED <<account, ui, queue, worker, todo, operation, clicked, last>>

-----------------------------------------------------------------------------
(* The worker.                                                              *)

Step == Head(todo)
At(steps) == worker = "running" /\ call = "none" /\ answer = "none"
               /\ todo # <<>> /\ Step \in steps

InWorker == UNCHANGED <<ui, queue, dialog, clicked, confirmed>>

Asked == call' = Step /\ UNCHANGED todo

Continue == todo' = Tail(todo) /\ UNCHANGED call
Quit == todo' = <<>> /\ UNCHANGED call
Complain == todo' = <<"message">> /\ UNCHANGED call   \* Error, and return

\* SendMessage to the window's thread.
Ask ==
  /\ At({"show", "unavailable", "message", "password", "label", "pin", "pinAgain"})
  /\ Asked
  /\ UNCHANGED <<account, worker, operation, answer, last>> /\ InWorker

\* SendMessage has returned.  A number of no key, and a new PIN that was not
\* repeated or that the key refuses, end the operation with an error.
Returned ==
  /\ worker = "running" /\ call = "none" /\ answer # "none" /\ answer' = "none"
  /\ warned' = (warned \/ (Step = "filter" /\ answer = "yes"))
  /\ IF Step \in Questions /\ answer = "no" THEN Quit
     ELSE \/ Continue
          \/ Step \in {"choose", "pinAgain"} /\ Complain
          \/ /\ Step = "pin" /\ op = "add"
             /\ todo' = [todo EXCEPT ![1] = "pinAgain"] /\ UNCHANGED call
  /\ UNCHANGED <<account, worker, op, snapshot, row, last>> /\ InWorker

\* GetStatus.
Read ==
  /\ At({"read"})
  /\ \/ Continue /\ snapshot' = [keys |-> keys, enforced |-> enforced]
     \/ /\ todo' = <<"unavailable", "message">> /\ UNCHANGED <<call, snapshot>>
  /\ UNCHANGED <<account, worker, op, row, warned, answer, last>> /\ InWorker

\* ChangePolicy, after its first Refresh.
CheckPolicy ==
  /\ At({"policy"})
  /\ IF snapshot.enforced = (op = "enable") THEN Quit
     ELSE IF op = "enable" /\ snapshot.keys = <<>> THEN Complain
     ELSE Continue
  /\ UNCHANGED <<account, worker, operation, answer, last>> /\ InWorker

AskOneKey ==
  /\ At({"oneKey"}) /\ (IF Len(snapshot.keys) = 1 THEN Asked ELSE Continue)
  /\ UNCHANGED <<account, worker, operation, answer, last>> /\ InWorker

\* FindConflictingFilter, which throws when it cannot read the registry.
AskFilter ==
  /\ At({"filter"}) /\ (Complain \/ IF foreign THEN Asked ELSE Continue)
  /\ UNCHANGED <<account, worker, operation, answer, last>> /\ InWorker

\* ChooseDevice: no key, one, or several.
Choose ==
  /\ At({"choose"}) /\ (Complain \/ Continue \/ Asked)
  /\ UNCHANGED <<account, worker, operation, answer, last>> /\ InWorker

\* BeginRegistration and BeginTest, Sign and FinishAuthentication; a key
\* without a PIN is not asked for one.
NoEffect ==
  /\ At({"begin", "sign"}) /\ (Continue \/ Complain)
  /\ UNCHANGED <<account, worker, operation, answer, last>> /\ InWorker

NoPin ==
  /\ At({"pin"}) /\ op = "test" /\ Continue
  /\ UNCHANGED <<account, worker, operation, answer, last>> /\ InWorker

CheckRow ==
  /\ At({"row"}) /\ (IF row \in DOMAIN snapshot.keys THEN Continue ELSE Complain)
  /\ UNCHANGED <<account, worker, operation, answer, last>> /\ InWorker

\* What a Broker call that may be carried out reports: success only if it was.
Outcome(effect) == (effect /\ Continue) \/ Complain

\* The device's Register, then CommitRegistration.
Register ==
  /\ At({"register"})
  /\ \/ Complain /\ UNCHANGED <<keys, last>>
     \/ \E k \in Keys :
          /\ ~ Has(keys, k) /\ Append(keys, k) \in KeyLists
          /\ keys' = Append(keys, k) /\ last' = [NoChange EXCEPT !.op = op, !.key = k]
          /\ Outcome(TRUE)
  /\ UNCHANGED <<enforced, foreign, elsewhere, worker, operation, answer>> /\ InWorker

SelectedNow == status.keys[selection]  \* mutant: the row selected by now

\* credentialId of the row selected when the operation began.
KeyToRemove == snapshot.keys[row]

Remove ==
  /\ At({"remove"})
  /\ \/ Complain /\ UNCHANGED <<keys, last>>
     \/ LET k == KeyToRemove IN
          /\ Has(keys, k) /\ ~ (enforced /\ Len(keys) = 1)
          /\ keys' = Without(keys, k) /\ last' = [NoChange EXCEPT !.op = op, !.key = k]
          /\ Outcome(TRUE)
  /\ UNCHANGED <<enforced, foreign, elsewhere, worker, operation, answer>> /\ InWorker

\* The Broker looks at the filters again.
Allowed == foreign => warned

Enforce ==
  /\ At({"enforce"})
  /\ \/ Complain /\ UNCHANGED <<enforced, last>>
     \/ /\ op = "enable" => keys # <<>> /\ Allowed
        /\ enforced' = (op = "enable")
        /\ last' = [NoChange EXCEPT !.op = op, !.foreign = foreign,
                                    !.single = Len(keys) = 1,
                                    !.moved = keys # snapshot.keys]
        /\ Outcome(TRUE)
  /\ UNCHANGED <<keys, foreign, elsewhere, worker, operation, answer>> /\ InWorker

PostBeforeMessage ==  \* mutant: the end is posted, then the error is shown
  /\ worker = "running" /\ call = "none" /\ answer = "none"
  /\ \/ todo = <<"message">> /\ ~ done /\ ~ joining /\ done' = TRUE /\ UNCHANGED worker
     \/ todo = <<>> /\ worker' = "ended" /\ done' = (~ joining)
  /\ UNCHANGED <<account, ui, initial, joining, dialog, todo, operation, call, answer,
                 history>>

\* The thread's last act is to post WM_OPERATION_DONE.
Post ==
  /\ worker = "running" /\ call = "none" /\ answer = "none" /\ todo = <<>>
  /\ done' = TRUE /\ worker' = "ended"
  /\ UNCHANGED <<account, ui, initial, joining, dialog, todo, operation, call, answer,
                 history>>

-----------------------------------------------------------------------------
(* Elsewhere: another manager changes the account, a filter comes or goes.  *)

Elsewhere ==
  /\ elsewhere < MaxElsewhere /\ elsewhere' = elsewhere + 1
  /\ UNCHANGED <<ui, queue, dialog, worker, todo, operation, call, answer, history>>
  /\ \/ \E k \in Keys : /\ keys' \in {Without(keys, k), Append(keys, k)} \cap KeyLists
                        /\ enforced => keys' # <<>>
                        /\ UNCHANGED <<enforced, foreign>>
     \/ keys # <<>> /\ enforced' = ~ enforced /\ UNCHANGED <<keys, foreign>>
     \/ foreign' = ~ foreign /\ UNCHANGED <<keys, enforced>>

Window == InitialRefresh \/ OperationDone \/ Joined \/ TakeCall
User == \E a \in {"yes", "no"} : AnswerDialog(a)
Work == \/ Ask \/ Returned \/ Read \/ CheckPolicy \/ AskOneKey \/ AskFilter \/ Choose
        \/ NoEffect \/ NoPin \/ CheckRow \/ Register \/ Remove \/ Enforce \/ Post

Next ==
  \/ Window \/ User \/ Work \/ Close \/ Elsewhere
  \/ \E o \in Operations : Click(o)
  \/ \E i \in 1 .. Len(status.keys) : Select(i)

\* Both threads run, every wait for the Broker and the key is bounded, and the
\* user answers an open dialog.
Spec == Init /\ [][Next]_vars /\ WF_vars(Window) /\ WF_vars(Work) /\ WF_vars(User)

-----------------------------------------------------------------------------
(* Properties.                                                              *)

AccountOK ==
  /\ keys \in KeyLists /\ enforced \in BOOLEAN /\ foreign \in BOOLEAN
  /\ elsewhere \in 0 .. MaxElsewhere
UiOK ==
  /\ window \in {"open", "destroyed"} /\ busy \in BOOLEAN /\ closePending \in BOOLEAN
  /\ loaded \in BOOLEAN /\ status \in Statuses /\ selection \in 0 .. Len(status.keys)
  /\ enabled \subseteq Operations
QueueOK ==
  /\ initial \in BOOLEAN /\ done \in BOOLEAN /\ joining \in BOOLEAN
  /\ dialog \in Dialogs \cup {"none"}
WorkerOK ==
  /\ worker \in {"none", "running", "ended"} /\ op \in Operations \cup {"none"}
  /\ snapshot \in Statuses /\ row \in 0 .. 2 /\ warned \in BOOLEAN
  /\ call \in UiSteps \cup {"none"} /\ answer \in {"none", "yes", "no"}
HistoryOK ==
  /\ clicked \in Keys \cup {None} /\ confirmed \subseteq Consents
  /\ last \in [op : Operations \cup {"none"}, key : Keys \cup {None},
               foreign : BOOLEAN, single : BOOLEAN, moved : BOOLEAN]

TypeOK == AccountOK /\ UiOK /\ QueueOK /\ WorkerOK /\ HistoryOK

\* The key that is removed is the one the selected row showed when Remove was
\* clicked, although the selection can change until the password is asked for,
\* and another manager may have changed the list at the Broker.
RemovesTheKeyClicked == last.op = "remove" => last.key = clicked

\* The manager changes the account only after its user entered the password in
\* this operation.  It enables MFA beside another filter only after the user was
\* warned and agreed, also when the filter was installed after the manager looked,
\* or the window is being closed.  The same goes for an account that has a single
\* key when MFA is enabled, as long as its keys are still those that the manager
\* read in this operation: when others removed a key since, the Broker enables
\* MFA for the last key without a warning (ChangePolicy asks before, main.cpp:571).
ChangesAreConfirmed ==
  /\ last.op # "none" => "password" \in confirmed
  /\ last.op = "enable" =>
       /\ last.foreign => "filter" \in confirmed
       /\ last.single => "oneKey" \in confirmed \/ last.moved

\* The window's thread never goes away from a worker: a destroyed window has no
\* worker that could call it, no open dialog and no thread to join; a dialog is
\* open only for a worker that waits for it.
WorkerHasItsWindow ==
  /\ window = "destroyed" => worker = "none" /\ call = "none" /\ ~ done
  /\ dialog # "none" => worker = "running" /\ call = dialog
  /\ worker # "none" <=> busy

\* A window that is being closed opens no dialog and starts no operation.
ClosingAsksNothing ==
  [][closePending => /\ dialog' \in {dialog, "none"}
                     /\ worker = "none" => worker' = "none"]_vars

\* A window that was told to close goes: the two threads, one in SendMessage,
\* the other in join, never wait for each other.
CloseEnds == closePending ~> window = "destroyed"
=============================================================================
