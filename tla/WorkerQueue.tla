---------------------------- MODULE WorkerQueue ----------------------------
(***************************************************************************)
(* The commands a page sends to its git worker: workerCommand() and        *)
(* restartGitWorker() of storage/gitstorage.js on the page's side, the     *)
(* worker's onmessage of storage/wasmgitworker.js on the other.            *)
(*                                                                         *)
(* The page has one variable, currentCommandInProgress, that every caller  *)
(* awaits in a loop.  When the command in progress settles, JavaScript     *)
(* resumes the callers that await it one after the other, in the order in  *)
(* which they began to wait and before any other event; restartGitWorker   *)
(* awaits through a catch(), which resumes it after them.                  *)
(***************************************************************************)
EXTENDS Naturals, Sequences

CONSTANTS
  Caller,       \* the places in the pages that call the exported functions
  NoCaller,     \* null
  Failures,     \* what may go wrong while a worker starts: "script", its own
                \* script does not load; "wasm", `ready` is rejected
  MaxProgress   \* bound: lines of progress on their way

ASSUME WorkerAssumption ==
  /\ NoCaller \notin Caller
  /\ Failures \subseteq {"script", "wasm"}
  /\ MaxProgress \in Nat

VARIABLES
  call,       \* call[c]: where c's call stands
  answer,     \* answer[c]: how it ended, and whose command the answer was to
  current,    \* currentCommandInProgress: the caller whose promise it is
  handler,    \* the caller whose promise worker.onmessage and onerror settle
  waiters,    \* the callers that await the promise, in order
  woken,      \* those that were resumed and have not run yet, with its outcome
  restart,    \* where restartGitWorker() stands
  worker,     \* the state of the worker
  inbox,      \* the messages posted to it
  outbox,     \* the messages it posted
  ran         \* ran[c]: the worker has carried out c's command

vars == <<call, answer, current, handler, waiters, woken, restart, worker, inbox, outbox, ran>>

None == [kind |-> "none", of |-> NoCaller]

Outcome == [kind : {"result", "error"}, of : Caller \cup {NoCaller}]
Message == [kind : {"progress", "result", "error"}, of : Caller]
Waking == [caller : Caller, answer : Outcome]

TypeOK ==
  /\ call \in [Caller -> {"idle", "waiting", "posted", "settled"}]
  /\ answer \in [Caller -> Outcome \cup {None}]
  /\ current \in Caller \cup {NoCaller}
  /\ handler \in Caller \cup {NoCaller}
  /\ waiters \in Seq(Caller)
  /\ woken \in Seq(Waking)
  /\ restart \in {"idle", "waiting", "woken"}
  /\ worker \in {"loading", "ready", "dead", "stuck"}
  /\ inbox \in Seq(Caller)
  /\ outbox \in Seq(Message)
  /\ ran \in [Caller -> BOOLEAN]

Init ==
  /\ call = [c \in Caller |-> "idle"]
  /\ answer = [c \in Caller |-> None]
  /\ current = NoCaller
  /\ handler = NoCaller
  /\ waiters = <<>>
  /\ woken = <<>>
  /\ restart = "idle"
  /\ worker = "loading"
  /\ inbox = <<>>
  /\ outbox = <<>>
  /\ ran = [c \in Caller |-> FALSE]

---------------------------------------------------------------------------
(* The page. *)

\* The promise, its two handlers and the message, all in one go.  A worker whose
\* script did not load drops the message.
Post(c) ==
  /\ current' = c
  /\ handler' = c
  /\ inbox' = IF worker = "dead" THEN inbox ELSE Append(inbox, c)
  /\ call' = [call EXCEPT ![c] = "posted"]
  /\ UNCHANGED <<waiters, worker, outbox>>

\* `while (currentCommandInProgress) await currentCommandInProgress`
PostOrWait(c) ==
  \/ current = NoCaller /\ Post(c)
  \/ /\ current # NoCaller
     /\ waiters' = Append(waiters, c)
     /\ call' = [call EXCEPT ![c] = "waiting"]
     /\ UNCHANGED <<current, handler, inbox, worker, outbox>>

\* Some page calls an exported function of gitstorage.js.
Call(c) ==
  /\ call[c] \in {"idle", "settled"}
  /\ woken = <<>>
  /\ answer' = [answer EXCEPT ![c] = None]
  /\ ran' = [ran EXCEPT ![c] = FALSE]
  /\ PostOrWait(c)
  /\ UNCHANGED <<woken, restart>>

\* A caller that awaited the promise runs on.  Without a catch in workerCommand
\* it throws what the command it waited for has thrown.
Resume ==
  LET w == Head(woken) IN
  /\ woken # <<>>
  /\ woken' = Tail(woken)
  /\ \/ /\ w.answer.kind = "error"
        /\ call' = [call EXCEPT ![w.caller] = "settled"]
        /\ answer' = [answer EXCEPT ![w.caller] = w.answer]
        /\ UNCHANGED <<current, handler, waiters, inbox, worker, outbox>>
     \/ /\ w.answer.kind = "result"
        /\ PostOrWait(w.caller)
        /\ UNCHANGED answer
  /\ UNCHANGED <<restart, ran>>

\* Variant for the mutation checks: an error leaves the command in progress.
SettleUnlessError(a) ==
  /\ current' = IF a.kind = "error" THEN current ELSE NoCaller
  /\ call' = [c \in Caller |-> IF c = current THEN "settled" ELSE call[c]]
  /\ answer' = [c \in Caller |-> IF c = current THEN a ELSE answer[c]]
  /\ woken' = [i \in DOMAIN waiters |-> [caller |-> waiters[i], answer |-> a]]
  /\ waiters' = <<>>
  /\ restart' = IF restart = "waiting" THEN "woken" ELSE restart
  /\ UNCHANGED handler

\* The promise of the command whose handlers are installed settles.
Settle(a) ==
  /\ current' = NoCaller
  /\ call' = [c \in Caller |-> IF c = current THEN "settled" ELSE call[c]]
  /\ answer' = [c \in Caller |-> IF c = current THEN a ELSE answer[c]]
  /\ woken' = [i \in DOMAIN waiters |-> [caller |-> waiters[i], answer |-> a]]
  /\ waiters' = <<>>
  /\ restart' = IF restart = "waiting" THEN "woken" ELSE restart
  /\ UNCHANGED handler

\* Variant for the mutation checks: a line of progress that is empty settles the
\* command, as it once did (lines 76-82).
DeliverAny ==
  LET m == Head(outbox) IN
  /\ outbox # <<>> /\ woken = <<>> /\ restart # "woken"
  /\ outbox' = Tail(outbox)
  /\ Settle(m)
  /\ UNCHANGED <<worker, inbox, ran>>

\* worker.onmessage: a line of progress is not an answer.
Deliver ==
  LET m == Head(outbox) IN
  /\ outbox # <<>> /\ woken = <<>> /\ restart # "woken"
  /\ outbox' = Tail(outbox)
  /\ \/ m.kind = "progress" /\ UNCHANGED <<call, answer, current, handler, waiters, woken, restart>>
     \/ m.kind # "progress" /\ Settle(m)
  /\ UNCHANGED <<worker, inbox, ran>>

\* A new worker; the old one is gone with whatever it was doing.
NewWorker ==
  /\ worker' = "loading"
  /\ inbox' = <<>>
  /\ outbox' = <<>>
  /\ handler' = NoCaller
  /\ restart' = "idle"
  /\ UNCHANGED <<call, answer, current, waiters, woken, ran>>

\* Variant for the mutation checks: restartGitWorker() awaits once, not in a loop.
RestartAfterOneWait ==
  /\ restart \in {"idle", "woken"}
  /\ woken = <<>>
  /\ \/ (current = NoCaller \/ restart = "woken") /\ NewWorker
     \/ /\ current # NoCaller /\ restart = "idle"
        /\ restart' = "waiting"
        /\ UNCHANGED <<call, answer, current, handler, waiters, woken, worker, inbox, outbox, ran>>

\* restartGitWorker(), when it starts and each time its catch() resumes it.
Restart ==
  /\ restart \in {"idle", "woken"}
  /\ woken = <<>>
  /\ \/ current = NoCaller /\ NewWorker
     \/ /\ current # NoCaller
        /\ restart' = "waiting"
        /\ UNCHANGED <<call, answer, current, handler, waiters, woken, worker, inbox, outbox, ran>>

---------------------------------------------------------------------------
(* The worker. *)

\* Its script and wasm-git are loaded, the repository is read from OPFS.
Load ==
  /\ worker = "loading"
  /\ worker' = "ready"
  /\ UNCHANGED <<call, answer, current, handler, waiters, woken, restart, inbox, outbox, ran>>

\* `ready` is rejected: `await ready` stands before the try, so that no message is
\* ever answered.
WasmFails ==
  /\ "wasm" \in Failures
  /\ worker = "loading"
  /\ worker' = "stuck"
  /\ UNCHANGED <<call, answer, current, handler, waiters, woken, restart, inbox, outbox, ran>>

\* The worker's script does not load: one error event, for whoever has a handler.
ScriptFails ==
  /\ "script" \in Failures
  /\ worker = "loading" /\ woken = <<>> /\ restart # "woken"
  /\ worker' = "dead"
  /\ \/ handler # NoCaller /\ Settle([kind |-> "error", of |-> NoCaller])
     \/ /\ handler = NoCaller
        /\ UNCHANGED <<call, answer, current, handler, waiters, woken, restart>>
  /\ inbox' = <<>>
  /\ UNCHANGED <<outbox, ran>>

\* git prints a line of progress.
Progress ==
  /\ worker = "ready" /\ inbox # <<>>
  /\ Len(outbox) < MaxProgress
  /\ outbox' = Append(outbox, [kind |-> "progress", of |-> Head(inbox)])
  /\ UNCHANGED <<call, answer, current, handler, waiters, woken, restart, worker, inbox, ran>>

\* onmessage carries a command out and posts its result or its error.
Serve ==
  LET c == Head(inbox) IN
  /\ worker = "ready" /\ inbox # <<>>
  /\ \E k \in {"result", "error"} : outbox' = Append(outbox, [kind |-> k, of |-> c])
  /\ ran' = [ran EXCEPT ![c] = TRUE]
  /\ inbox' = Tail(inbox)
  /\ UNCHANGED <<call, answer, current, handler, waiters, woken, restart, worker>>

---------------------------------------------------------------------------
Next ==
  \/ \E c \in Caller : Call(c)
  \/ Resume \/ Deliver \/ Restart
  \/ Load \/ WasmFails \/ ScriptFails \/ Progress \/ Serve

\* The page's event loop, the worker's, and a worker that starts one way or another.
Fairness ==
  /\ WF_vars(Resume)
  /\ WF_vars(Deliver)
  /\ WF_vars(restart = "woken" /\ Restart)
  /\ WF_vars(Load \/ WasmFails \/ ScriptFails)
  /\ WF_vars(Serve)

Spec == Init /\ [][Next]_vars
LiveSpec == Spec /\ Fairness

---------------------------------------------------------------------------
(* Properties. *)

\* The git repository has one user: the worker never has two commands, nor one to
\* carry out while an earlier answer is still on its way, and no two answers are.
Answers == {i \in DOMAIN outbox : outbox[i].kind # "progress"}
OneAtATime ==
  /\ Len(inbox) <= 1
  /\ \A i, j \in Answers : i = j /\ inbox = <<>>

\* Who gets a result gets that of its own command, which was carried out; who fails
\* because of another caller's command has not had its own carried out ("the
\* command's real result was handed to whichever command ran next", lines 76-82).
AnswersMatch ==
  \A c \in Caller : call[c] = "settled" =>
    /\ answer[c].kind = "result" => answer[c].of = c /\ ran[c]
    /\ answer[c].of # c => answer[c].kind = "error" /\ ~ran[c]

\* "nothing is lost" by a restart (line 35): no command is on its way to the worker
\* that is terminated and no answer on its way back.
RestartLosesNothing ==
  [][Restart => restart' = "waiting" \/ (inbox = <<>> /\ outbox = <<>>)]_vars

\* A call is answered sooner or later, by a result or by an error, its own or the
\* one it waited behind: the queue loses nobody and serves in order, whatever
\* other callers and restarts come in between, as long as the worker runs.
CallsSettleWhileItRuns ==
  \A c \in Caller :
    call[c] \in {"waiting", "posted"} ~> call[c] = "settled" \/ worker \in {"dead", "stuck"}
=============================================================================
