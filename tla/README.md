# Verification of mock-api

TLA+ models of the API server in `src/`, the TLC runs that check them and the
theorems that TLAPS proves about them. `PROJECT.json` maps every definition to
the lines of code it stands for.

## 1. The system

mock-api is one Python process: a FastAPI application on one asyncio event
loop, a PostgreSQL database reached through an `asyncpg` pool, files on disk,
and one child process (the JS or the Python deobfuscator) per analysis job.

| Component | State it keeps | Operations | Hard part | What makes it correct |
|---|---|---|---|---|
| Job lifecycle (`main.py`, `db.py`) | dict `JOBS` of `Job` objects, table `jobs`, directories `runs/<id>`, the background tasks | `POST /api/analyze`, `run_job`, `POST .../cancel`, `DELETE .../{id}`, `DELETE /api/auth/me`, start and death of the process | every `await` lets other requests run; phase writes are tasks of their own; the process may die anywhere; a statement may raise | the row goes through queued, running, one verdict; the verdict is final and complete; nothing stays pending; a cancellation wins; a delete leaves nothing |
| Backend runner (`runner.py`) | the child process, its pipe, two clocks, the current phase | `_stream_process`, `_stop_process_tree`, `run_js`, `run_py` | a child that ignores SIGTERM, falls silent, never stops talking, closes its output, leaves a descendant with the pipe | overdue or cancelled children are killed in bounded time; the answer fits the exit; phases only advance |
| Live streams (`main.py`) | per client: cursor, slice, awaited event | `GET .../stream` | lines arrive while others are being sent; the event is swapped under the reader | order, no duplicate, no lost wake-up, every stream ends |
| LLM configuration (`main.py`, `llm_config.py`, `db.py`) | two `llm_config.toml`, row `llm_key_owner`, `llm_verified.json` | `PUT /api/llm/config`, `POST /api/llm/check`, the LLM gate of `analyze`, account deletion, adoption at startup | two files and a row are not written in one step, and each step may raise; missing files are made from different examples; a check takes up to a minute; a run reads the file long after its upload was let through | the row names the saver of the key; the stamp stands for a connection that was tested; a run uses its own user's key |
| Accounts (`main.py`, `auth.py`, `db.py`) | tables `users`, `tokens` | signup, login, logout, change-password, sign-out others, delete | check-then-insert, two writers of a password hash, an address that is registered again while a request for its former account waits, a token in header and in query | one account per address; sessions and changes only for who typed a password of the account; a revoked token is dead |
| Pool (`db.py`) | `_POOL`, `_POOL_LOCK` | `_pool`, `close` | double-checked creation; close beside use | one pool |
| TOML editor (`llm_config.py`) | none | `_update_toml_file` | a line scan beside a real parser: quotes, escapes, `#`, texts over several lines, sections | what is written reads back, all else stays |
| Language detection (`main.py`) | none | `detect_lang` and its sniffers | six tests in turn | the engine that hint, extension or content call for |
| Reports (`runner.py`, `main.py`) | none | choice of clean code, result directory, layer cards, IOCs, `derive_mitre`, severity | candidates that are missing or empty, layer 10 before layer 2 | the last code, every finding, distinct cards |
| `run.py`, `logging_config.py`, `sample_data.py` | none of the server's | launcher, log setup, constants | | |

How they interact: `analyze` creates a `Job` and spawns `run_job`; `run_job`
calls the runner with two callbacks, `on_phase` (schedules a row update) and
`on_log` (appends a line and wakes the streams); requests set the job's cancel
event, which the runner polls once a second; streams read the `Job` object,
or, when it is not in memory, the row; `DELETE /api/auth/me` touches jobs,
LLM key and sessions alike; `llm_config.py` edits the two configuration files
with the TOML editor; `analyze` asks `detect_lang` for the engine and the
runner hands back what it read of the backend's report.

## 2. Modules

| Module | Models | State of the code -> variables |
|---|---|---|
| `JobContract` | the promise about the durable record of a job, for any implementation | `record`, `result` |
| `JobLifecycle` | handlers of `main.py`, `run_job`, table `jobs`, run directories, crash and restart | `JOBS` -> `jobs`; `Job` -> `mem`; the await at which analyze or run_job stands -> `pc`; `pending_db` -> `pend`; table -> `row`, `owner`, `accounts`; `runs/` -> `dirs`; requests in progress -> `hnd`; "end" events sent -> `told` |
| `MCJobLifecycle` | symmetry for TLC | |
| `RunnerContract` | what `run_job` relies on when it awaits `run_js` or `run_py`, for any implementation | `phase`, `cancel`, `answer`, `alive` |
| `BackendRunner` | `_stream_process`, `_stop_process_tree`, the ending of `run_js` / `run_py`; the process itself is external | await -> `pc`; `current_phase` -> `phase`; `cancel_event` -> `cancel`; pipe -> `line`, `closed`, `kid`; clocks in seconds |
| `SseStream` | `gen()` of `stream_job`, `on_log`, the finally block | `len(job.logs)` -> `logs`; `job._event` -> generation `event`; per client `cursor`, `slice`, `on` |
| `LlmKey`, `MCLlmKey` | PUT config, check, signup, delete_me, the LLM gate of `analyze` and the backend that reads the key, startup adoption, `llm_config.py` | `users` -> `account`; `llm_key_owner` -> `owner`; the two `llm_config.toml` -> `files`, `missing`; `llm_verified.json` -> `stamp`; requests and runs on their way, with the await each is at -> `reqs`; start and death -> `server` |
| `SessionContract` | the promise about accounts and sessions, for any implementation | `account`, `session`, `holder` |
| `Accounts`, `MCAccounts` | the six handlers of `/api/auth`, `current_user`, `_extract_token`, tables `users` and `tokens` with their constraints | `users`, `lastId` (the identity sequence), `tokens`, `issued`; requests -> `reqs` with the snapshot they act upon |
| `Detection` | `detect_lang`, `_looks_binary`, `_sniff_binary_lang`, `_sniff_lang` | operators, no state |
| `TomlEditor` | `_update_toml_file`, `_toml_value`, `_find_unquoted_hash`, beside a reader of TOML lines | operators, no state |
| `Reports` | what `run_js` and `run_py` read back, layer cards, findings, `derive_mitre`, severity | operators, no state |
| `Algorithms`, `MCAlgorithms` | one behaviour per input of the three modules above: `problem`, then `answer` | |
| `*_proofs` | the theorems about `JobLifecycle`, `BackendRunner`, `SseStream`, `LlmKey`, `Accounts`, `TomlEditor` and `Algorithms` | |

Code between two awaits is one action, except in two places. `cancel_job` is a
plain `def`, which FastAPI runs in a worker thread: its look at the status and
its `set()` are two actions, and the stretch of `run_job` from the cancel check
to `status = "done"` (control point `finishing`) can be interrupted by it, and
by it only (`LoopFree` keeps all else out). And `write_config` can be cut short, by a
crash of the server (`CrashInWrite`) or by an error that ends the request in a
500 (`WriteFails`): while it makes the missing files, between the two files, and
within one, as `write_text` truncates a file before it fills it. One step is
coarser than the code: the commit of `run_job`'s first update and the
coroutine's return to the mkdir after it (`RunStartWrite`, `main.py:446-450`).

Data is cut to what the properties tell apart. A result bundle is one bit;
phase and progress are ranks (`PHASE_ORDER`, `PHASE_PROGRESS`, 1.0 one above
the last); a line is a phase, a blank or an overlong one; a key is who pasted
it and its text, and `Tail` says which texts end alike; the fields of a file
that take no part in the connection are left out, and a file that does not
parse says nothing (`_read_toml`); a password hash is the password it was made
from; an upload is the widths of its characters and which markers stand in it;
a line of a file is what the editor or a TOML parser asks of it, where newlines
and control characters do not occur in values (`_toml_value` does not escape
them, section 5).

Variables that no code has: `told`, `gone` (what clients were told), `late`
and `sent` (lines of the log a stream sent or missed), `had` and `granted` of
`Accounts` (passwords an account has had, the account each token was issued
for), and in `LlmKey` the saver of a key, `heir` (the account that adopted the
key that was there before the row), `apart` (something left files and row apart
and was not put right yet), and of a request `tested`, `clean` and `alone` (what
a check probed, whether a write crossed the check or the run, whether another
writer was about). They are read by properties only and never by a guard,
except that what an unclean check saw is not remembered: its stamp is `Stale`,
which no property relies on.

Where modules meet. `JobLifecycle` takes from the runner what `RunnerContract`
says: phases that only advance, one answer, a result only of a run that was not
cancelled, nothing after the answer. `RunnerPhase`, `RunnerReturns` and
`RunnerRaises` let it do all of this at any time, and `BackendRunner` implements
the contract. That the runner comes back is `Answers`, with its exceptions.
`SseStream` takes from `JobLifecycle` that a job settles.
`DELETE /api/auth/me` is in three modules: its jobs in `JobLifecycle`, its key
in `LlmKey`, its tokens in `Accounts`. Between these parts the handler keeps
no state, and each of them waits at an await of its own.

## 3. Runs

| Run | Shows |
|---|---|
| `jobs_safety` | all states of one job, one account, two concurrent requests, phases 0..2, two failing statements and a crash (305,778 states up to symmetry): the lifecycle implements `JobContract`; verdicts are final and rows complete; the table stays behind memory and ends equal to it; a stream ends without a verdict only for a job that was deleted |
| `jobs_settle` | under fairness, with a crash and without failing statements: every stored job settles, a cancelled run is never done |
| `runner` | both platforms, both limits, three lines of any kind, eight seconds: overdue children die in time, answers are sound, the runner implements `RunnerContract` (phases climb, one answer, silence after it) and comes back |
| `sse` | two clients, three lines: order, no line lost but those logged during a send, every stream ends without a keepalive |
| `llm_key` | two users who may sign up and leave, two requests or runs, files that start missing, alike or apart, any number of crashes, failing statements and failing writes (1,137,499 states up to symmetry): owner row and key, stamp and tests, deleted accounts, runs with their own key |
| `accounts` | two requests, two addresses, two passwords, two accounts and three tokens ever made, statements that raise (172,793 states up to symmetry): the tables implement `SessionContract`; one account per address; who gets a session, changes a password, ends which sessions |
| `algorithms` | all problems within the bounds with their answers (2,304,374 states): every upload, file, result directory, numbering and pair of findings documents |
| `v_*` | five disagreements between the code and its documentation, section 5 |

Why the bounds are enough. One job: jobs share no state but the database pool
and the account, `OthersUntouched` in the proofs shows that a step of one job
leaves the others alone, and the theorems hold for any set of jobs. Two
requests: every race in the code is between a request and `run_job`, or
between two requests; three phases give two writes that can commit in either
order. Two failing statements: the terminal update and the one in the except
branch. One crash: after it nothing of memory is left, and a restart with
nothing pending is a stutter. Runner: MaxRuntime 3, IdleLimit 2 and Grace 1
let each limit fire first, alone, and while a stop is under way; the horizon
lies beyond the longest stop (3 + 1 + 3 seconds on Windows). Streams: a slice
of two lines with a third that arrives in its middle. In `llm_key` each
user pastes one key, a third stands in the files from before keys had owners,
and all three end alike, the case that the fingerprint cannot tell apart; there
is one field of the connection, empty or set, enough for the two files to
differ in a way that their merge hides. Nothing there is counted: crashes,
failures and requests go on for ever.
The theorems hold for any numbers of all of these. `accounts`: with two ids
one account can be removed and its address registered again while a request
for the first one waits; three tokens are the one that authenticates, another
of its account and one of the other account. `algorithms`: a head of five
bytes and four characters of one to four bytes, so that the cut falls between
characters and inside one, also behind a CRLF at bytes 2 and 3; files of four lines over sixteen sample lines are
enough for a text that opens, a key inside it, its end and a header behind it;
layers 1, 2 and 10, whose order by name and by number differ; documents with
two findings in a list, or lists under two keys; three cards.

Deadlock is not checked: a server without requests, a job that is over and a
stream that ended do stop.

Fairness. In `JobLifecycle` every ready coroutine runs on, the database
answers or raises, the backend returns (the runner's `Answers` says when) and a
crashed server is restarted: this is what an event loop, a supervisor and the
timeouts give. Requests, failures and crashes are never forced. In
`BackendRunner` the pump and time go on, and a process that was sent SIGKILL
dies; nothing makes a backend exit, print or close its output. In `SseStream`
the job settles and a client that stays takes what it is sent; the fifteen
second keepalive is not relied on.

Failures. In `JobLifecycle` a failing statement is taken as not applied
(`Fault`). A statement that was applied but whose answer was lost is not
modelled there, except for the first one of `run_job`, where the mkdir after it
may raise. In `LlmKey` a failing statement that sets or clears the owner was
applied or not (`OwnerFails`), any other may raise too (`QuestionFails`), a
write of the files may stop anywhere (`Tear`), and removing or writing the
stamp, which is best effort in the code, may silently do nothing (`ClearStamp`,
`CheckEnd`).

## 4. Proofs

`JobLifecycle_proofs` holds for any sets of jobs, accounts and requests and
any number of phases, failures and crashes; its only assumptions are those of
`LifecycleAssumption` (bounds are natural numbers, "no job" is not a job).

* `TypeCorrect`: one lemma per group of actions.
* `LifecycleHolds`: `LifecycleInv` is inductive. None of the safety invariants
  is inductive alone: that the row stays behind memory needs to know which
  writes are in flight (`WritesInSpan`) and that phase and progress of the Job
  object move together (`ProgressAgrees`); that a verdict is final needs that
  no write is in flight once it is stored, which follows from the drain and
  from where the coroutine stands (`RowAgrees`). The proof goes job by job
  (`PerJob`): a coroutine's step touches one job (`OthersUntouched`), a
  request only sets cancel events, removes rows and forgets jobs
  (`Reclaimed`), a crash and a restart are treated apart.
* `DoneRowsComplete`, `RowsBehindMemory`, `LiveRowsHaveTasks` and
  `ForgottenRunsStop` are parts of it.
* `VerdictsFinal`: an action property, from `VerdictKept` and the invariant.
* `ContractKept`: initial states map to initial states, and each action to one
  of `JobContract` or to a stutter.
* `CancellationWins`: `Doomed` (cancelled while streaming, ended otherwise than
  done, or over) is stable and excludes done.
* `RowsMatchMemory`, `VerdictsNotRevised`: from a second invariant on top of
  the first (`Mirrors`): without failing statements the Job object has a
  result exactly when it is done, the row of a finished job says what the
  object says, and without a crash a job without a coroutine has no row and
  every verdict that was sent is the one of the object, which is then past
  changing it.
* `EarlyEndsDeleted`: `replay()` takes a row for that of a finished job because
  the job is not in `JOBS`. `EarlyEnd` says for which jobs that goes wrong: such
  a job left `JOBS` for good (`Onward`: nothing puts it back once its row was
  stored, nothing clears its cancel event), and by the invariant it was stopping
  when it left, or its process died.

`BackendRunner_proofs` holds for any limits, grace period, number of phases
and lines (`RunnerAssumption`). `RunnerInv` ties the control point to the
process: at which points it is known to have ended, which reason to stop was
found, that the wait without a limit follows only end of file. `AnswersSound`
and `PhasesAdvance` follow from it. `RunnerKept` is the refinement of
`RunnerContract`: a line read is an advance or a stutter (`ReadAdvances`), and
each way out of `run_js` and `run_py` is the one answer that the contract allows
for the process as it then is. `OverdueKilled` needs clocks: the
escalation of `_stop_process_tree` is a sequence of waits with known ends, and
the invariant bounds the time since the limit or the cancellation at each of
them.

`SseStream_proofs` holds for any clients and any number of lines. The
invariant goes stream by stream: what was sent is ascending and below the
position of the stream, the slice continues it, and every line below the
position was sent or is late (`Accounted`). `LinesInOrder` and `OnlyLateLost`
follow.

`LlmKey_proofs` holds for any users and any keys, fields of the connection,
requests, failures and crashes (`LlmAssumption`: the values for "none" are no
users, keys or field values, and `Tail` gives each key text its ending). Files
and row are not written in one step, so `OwnerSavedKey` is far from inductive.
`Good` is what file and row should be to each other: every key's holder is in
the row, and without a key nobody is; as long as a file is missing nobody has
set a key, and the row is the heir's. `LlmInv` says what a writer that is alone
has left of it at each of its awaits (`Left`), that two writers know of each
other (`Lone`), and that with nobody writing and nothing left apart `Good` holds
(`RestOK`). `Runs` says that while a clean run waits every other writer stands
before its write, where it cannot change the owner (`Before`). `Checks` has two
parts: a check that nothing crossed found both files there and alike (`Whole`),
so its fingerprint is that of each file, and has probed what they still say
(`Probed`); and while its stamp is there the files are still `Whole` and say the
connection that was tested, with the keys that were tested unless a change of
them is under way (`Stamped`). `Whole` outlives a save that keeps the
fingerprint, as saves change both files alike: this is why it has to be asked
of the check, and why the claim fails for files that start apart.
`OwnersSaved`, `DeletedKeysGone`, `VerifiedTested` and `RunsOwnKey` follow.

`Accounts_proofs` holds for any requests, addresses, passwords and bounds
(`AccountsAssumption`: the values for "none" are no users, addresses or
passwords). `AccountsInv` says that addresses are unique and canonical, that
tokens belong to accounts that exist, and what a waiting request knows:
an id is never used twice, so although the account may be gone, what was read
of it remains true of whatever has this id. `SessionsKept` is the refinement
of `SessionContract`.

`TomlEditor_proofs` and `Algorithms_proofs` are about functions, and hold for
inputs of any length. `EditorReadsBack` says of `_update_toml_file` what matters
to its callers: for every flat file and every set of updates, reading the edited
file gives the new values with the old comments for the updated keys, and what
was read before for all others. The functions are folds over sequences, and the
library's induction over numbers is out of the provers' reach, as it takes an
operator for a parameter. So a fold is unrolled once into a run of steps, and
what holds along every run is shown by the least counterexample of a set of
numbers. Reading, editing and reading the edited file then go side by side, line
by line (`EditFollows`): the three agree on whether a triple-quoted text is open,
on the section, and on what has been read of each key. The keys that the file did
not have are added by `Spaced` before the first header or at the end, which is
the place (`CutHere`) where the reader is still at top level. Inside one line
the same is done with characters, for escaping against unescaping and for the
end of a string.

`DetectionHolds`, `EditsHold` and `ReportsHold` state the three properties of
the run `algorithms` for uploads of any length and widths, any sample lines and
numbers of them, any finite directory, any layer numbers and documents of any
length. For the findings, `AllFindingsShown` follows each one from its place in
a list to its place in the result, and the worst of them to the severity of the
session (`WorstShown`).
`EditsHold` asks of the sample lines what makes them lines of a file
(`SamplesAssumption`); TLC evaluates it.

Only model-checked: liveness (`Settles`, `Answers`, `StreamEnds`), which is out
of the prover's reach.

## 5. Where code and documentation disagree

* `v_finished_jobs_survive`: the status is set before the row is written; an
  "end" event in between says done, and after a crash the job is an error.
* `v_deleted_dir_stays_gone`: `run_job` awaits its first update, a delete
  removes row and directory, `mkdir(parents=True)` makes the directory again.
* `v_teardown_stops_runs`: an upload that reaches `JOBS` after `delete_me`
  looked runs uncancelled for a deleted account.
* `v_runtime_limit_kills`: an overlong line makes `readline` raise and leaves
  the process running; after end of file the wait has no limit.
* `v_every_line_streamed`: lines logged while a stream sends are skipped, as
  the cursor is set from the later length.

Seen while modelling, without a run of their own:

* A missing executable in `llm_check` is handled with `process_log`, a name
  that `main.py` does not have (line 1162): the request ends with a 500 and
  the stamp of an earlier test stays (`ProbeRaises`).
* The owner of the key is asked at the upload; the backend reads its file when
  it is started. A key that another user saves in between is used, although
  `README.md:194-195` has it that a key from another account is treated as
  absent.
* `PUT /api/llm/config` writes the key into both files and then awaits the
  owner row (`main.py:1013-1015`). When this statement raises, the key of one
  user stays under the row of another, who passes the gate and can read it;
  `README.md:194-195` again says otherwise. When the statement of `delete_me`
  raises (`main.py:890`), the key is gone and the row stays. Nothing in the code
  puts this right before a key is set or cleared again (`OwnerFails`).
* A missing `llm_config.toml` is made from the engine's own example
  (`llm_config.py:67-79`), so that the two may differ. The fingerprint is that
  of their merge: after a check that passed with a different model in each
  file, a save that changes the Python file to JavaScript's model keeps the
  stamp, although the comment at `llm_config.py:138-140` has any change of the
  saved config invalidate it (`Agree`).
* `README.md:247` and `254-256` take the findings of the Python engine from
  `ioc_report.json`, with a summary in `report.json`; `_py_iocs`
  (`runner.py:458-466`) shows findings embedded in `report.json` instead when
  there are any, and then none of `ioc_report.json`. Of a document with lists
  under several keys only the first one is read (`runner.py:500-503`).
  `ReportShown` follows the code in both.
* The head of an upload is cut at byte 8192, maybe inside a character; a text
  then looks binary. An executable with two of JavaScript's markers in its
  head goes to the JS engine, against the comment at `main.py:390-392`.
* `_update_toml_file`: a key to update whose value spans lines, or that
  stands in a section; a first header that is `[[...]]` or carries a comment;
  the comment behind a literal string with a backslash before its tick; a
  newline in a value, which is not escaped; a line on which a third triple
  delimiter stands, as in a comment behind a text that begins and ends there.
* `layer_0_ioc_report.js` matches the pattern of the layer files and is shown
  as code when there is no other; a bare directory with the name of the upload
  hides another that has the report.
* An upload named `out` makes `out_dir.mkdir` raise, before the `try` of
  `run_job` (line 450): the same end as `RunStartFails`.
* Two change-password requests that were verified against the same password
  both succeed. The loser of two signups gets a 500 instead of a 409, and a
  signup may answer 500 after its account is stored.

What the passing properties except on purpose, because the code does not give
it: `LiveRowHasTask` and `RowMatchesMemory` suppose that no statement failed;
`VerdictNeverRevised` also that nothing crashed; `OwnerSavedKey` and
`DeletedKeyGone` that no two writers of the key overlapped and none was cut
short by a crash, a failing write or a failing owner statement, until a key is
set or cleared again with no other writer about; `VerifiedWasTested` that the
check found both files there and alike, that no file was written during it,
and that no torn write, failing owner statement or failing removal of the stamp
came after it; `RunUsesOwnKey` that no writer crossed the way of the run and
nothing was left apart before. `Verified` takes files, stamp and row at one
moment; `GET /api/llm/config` reads the files before it asks for the owner.
`SessionEarned` and `ChangeEarned` ask for a password that the account has
had, not for its present one. `DetectionRouted` and `EditReadsBack` leave out
the texts and files of the list above.

## 6. Not modelled

`run.py`, logging and sample data (no state of the server); the Windows error
mode and event loop policy set at import; ZIP unpacking (an external program
in a temporary directory, a list of independent refusals, all of them
`AnalyzeReject`); the pool, which is made once under a lock and closed at
shutdown; previews, byte counts and unreadable files of the reports; the list
of sessions and the snapshot of a job (reads that shape rows for the
frontend). A graceful shutdown is the same as a crash for the models: tasks
are dropped and rows stay pending. Nobody signs up in
`JobLifecycle`: a new account has no jobs, and any number of accounts may be
there from the start. In `EditReadsBack` a file is lines that parse; what a
torn write leaves of a file is in `LlmKey` any part of it that still reads, or
nothing.

## 7. Plan

Done, in this order: `JobContract` and `JobLifecycle` with its proofs,
`BackendRunner`, `SseStream`, `LlmKey`; then `SessionContract` and `Accounts`
with its proofs, the LLM gate in `LlmKey`, `Detection`, `TomlEditor`,
`Reports` and `Algorithms`, and the proofs about `BackendRunner`, `SseStream`,
`LlmKey` and the two history invariants of `JobLifecycle`; then
`RunnerContract` with its refinement, the early "end" events of `replay()`, and
the proofs about `TomlEditor` and `Algorithms`.

Next:
1. What the contracts alone give: theorems about `JobContract`,
   `SessionContract` and `RunnerContract` that every implementation inherits.
2. A property on the run directories and `JOBS` entries that a failed insert
   leaves behind.
3. Composition of `JobLifecycle` with `SseStream`: the stream of a job that is
   deleted while it is open.
4. The single pool: creation and close beside use.
