# A TLA+ model of Rime-Voice

Rime-Voice is a voice receptionist: a caller talks to an LLM persona that looks up and
changes bookings with tools, and speaks through Rime's streaming text-to-speech. Its claim is
correct handling of interruptions: when the user barges in, queued audio stops and a tool call
of the interrupted turn is neither spoken nor written. This directory models the parts of the
program on which that claim rests, checks them with TLC on small instances and proves the most
important properties with TLAPS for every instance. `PROJECT.json` relates each definition to
the lines of source it stands for.

## The system

| Component | Source | State it keeps | Operations |
|---|---|---|---|
| Turn manager | `agent/turn_manager.py` | its task list; everything else is in the store | `on_interrupt`, `dispatch_tool`, `_execute`, `_on_tool_result` |
| Session store | `redis_state/session_store.py` | `turn_version`, `pending_tools`, `state` | create, read, `INCR`, register and pop a call, confirm, reset |
| Tool clients | `agent/tool_client.py` | none | `run` and `commit`, in process or over HTTP |
| Booking tools | `backend/tools.py`, `models.py`, `schemas.py` | the bookings table | lookup, find, three validations, commit |
| HTTP API | `backend/main.py` | none | the tools and `/commit` as endpoints, `/ws/call`, `/demo/run` |
| Streaming TTS | `agent/tts_rime.py` | tokens `_current`, `_sent`, `_fired`; `active`, `_dropped`; a socket, its reader, a lock | `speak`, `cancel`, `warm_up`, `_synthesize`, `_read_loop`, `_fire_done`, `close` |
| Voice call | `backend/voice.py` | history, an outbound queue, one task per final transcript | `start`, `_on_stt`, `_run_turn`, `_confirm_tool`, `_speech_done`, `close` |
| Detector and STT | `agent/stt_pipeline.py` | `_agent_busy`; the Deepgram socket, its HTTP session and reader | `on_user_speech`, `set_agent_busy`, `open`, `close` |
| LLM tools | `agent/llm_tools.py` | none; reads the call's history in a thread | decide on a tool or a reply, word a confirmation |
| Browser | `web/index.html`, `web/audio-worklet.js` | playback queue, start cushion | play, flush, show |
| Demo | `agent/demo_scenario.py`, `backend/seed.py` | none; resets one booking and a session | one scripted interruption for each `/demo/run` |
| Event log, evidence, tests | | | scripts around the above |

How they interact. The browser's microphone reaches Deepgram; each transcript reaches
`VoiceCallSession._on_stt`, which asks the detector whether the words interrupt the agent, and
for a final transcript creates a `_run_turn` task. An interruption increments `turn_version`
and calls `tts.cancel()`. `_run_turn` consults the LLM in a thread and either speaks the reply,
if the version has not changed meanwhile, or dispatches a tool call tagged with the version of
that moment. The call's task awaits the tool, compares versions, commits, confirms, awaits the
LLM again for the wording (`reply_hook`) and speaks. The streamer calls `on_done` when an
utterance ends, which clears the detector's busy flag. Turns tell each other what was said in
`history`, which the LLM's threads read. `ws_call` opens a session for each browser and closes
it, one resource after another, when the browser is gone, while the session's tasks go on.

What is hard about it: one event loop interleaves the tasks at every `await`, two LLM threads
and several tool calls overlap, the server behind `HttpToolClient` works while its client
waits or has given up, Rime may stall, answer late or die, and the detector's one flag is set
and cleared by five different pieces of code.

What would make each component correct:

* **Turn manager, store, clients**: a call is decided once, by the version current at that
  moment; a stale call writes and says nothing; a fresh one is answered; every task ends.
* **Booking tools**: committing a proposal, a whole row, changes what the request asked and
  nothing else; what is confirmed is what is stored.
* **TTS**: every utterance ends exactly once or is superseded, whatever Rime does; only the
  latest can end; a cancelled one is not heard or sent.
* **Voice call, detector**: replies from before an interruption are not spoken; what is being
  spoken can be interrupted; every final transcript comes to an end.
* **History**: an exchange is told whole, a result behind its request, and no prompt misses
  what its turn could know, though the list is read while it grows.
* **Lifetime of a call**: whatever fails or is under way when the browser hangs up, `close()`
  ends, releases what was opened before it, and no turn begins that has nothing to speak with.
* **Demo**: every run tells the same story, whatever earlier runs and callers left behind.
* **Outbound queue, browser**: control messages pass, in order, whatever audio is shed; what is
  cancelled stops playing; short utterances are played; frames hold whole samples.

The hazards of the code, each at its line and with the properties that cover it, are listed in
`PROJECT.json`.

## Modules

| Module | Models | Kind |
|---|---|---|
| `BookingTools` | the table and the tools as pure operators; `Wanted`/`Obeyed` say what a request asks for, in terms of the request and not of the code | operators |
| `TurnGate` | what the turn manager promises about calls | abstract specification |
| `TurnManager` | turn manager, store, either client, the server, other sessions | detailed; implements `TurnGate` |
| `Speech` | what the rest of the call relies on from the TTS: one end for each utterance, silence after a cancel, texts heard in the order they were spoken in | abstract specification |
| `RimeStreamer` | the streamer, its socket, Rime | detailed; implements `Speech` |
| `VoiceCall` | detector and turn pipeline, composed with `TurnGate` and `Speech` | composition |
| `Playback` | the bytes of a text, the reader's carry, the outbound queue and its writer, the page and its player, composed with `Speech` | composition |
| `DemoScenario` | `/demo/run`: runs of the scripted interruption over a shared table and store | detailed |
| `CallLifetime` | `/ws/call`: what a call opens and releases, at Deepgram, at Rime and in the session | detailed |
| `Conversation` | the history of a call and the prompts that quote it | detailed |
| `MCTurnManager` | rows, requests and the table of the small instances | instances |
| `BookingToolsTheorems`, and `TurnManagerProofs`, `RimeStreamerProofs`, `VoiceCallProofs`, `PlaybackProofs`, `DemoScenarioProofs`, `CallLifetimeProofs`, `ConversationProofs` | theorems about the module of the same name, and their proofs | proofs |

### Granularity

An action is what the event loop runs between two suspensions of a task, with everything that
stretch of code changes. Thus `LocalCommit` of `TurnManager` is running the tool, popping the
call, checking the version, committing, confirming and, without a hook, speaking: with
`LocalToolClient` nothing in `_execute` suspends after the sleep. With `HttpToolClient` the
same code is split where it awaits a request, and the server's handling (`ServeTool`,
`ServeCommit`) is a step of its own.

### `TurnManager`

`turnVersion`, `pending` and `confirmed` are the three keys of the store, `db` the table.
`stage`, `tag`, `req` and `answer` are the local state of each call's task. `playing` is what
the TTS has been told to speak and has not finished. `obeyed` is a history variable: the table
that would result if every commit did what its request says; `raced`, another, holds the calls
whose booking someone wrote while their proposal was under way. Other sessions
(`OtherSessionCommits`) change the same table through in-process tools. The CONSTANTS `Http`
and `ReplyHook` select the client and the presence of a hook, as the constructor does.

Abstractions: column contents are values of a small set, with matching as a relation
(`PartOf`); `find_bookings` may keep any `FindLimit` matching rows, for dates are not ordered; the database
gives an insert any free id; `/commit`, a function run in a thread, is one step; one call's
arguments are one record with a value, null or nothing for each column (an empty text given to a
search or as a phone has the effect of nothing). Over HTTP a null text is refused with 422 (`WellFormed`).

### `RimeStreamer`

`current`, `sent`, `fired`, `active` and `dropped` are the fields of the same names, tokens
being numbered by the `speak()` that made them; token 0 is both the object `_current` starts with
and, in `queue`, the `warm_up` task. `ready` holds the tasks that were created and have not
started, in order; `queue` the tasks at the lock, in the order asyncio serves them; `phase`
what the lock's holder awaits. `up` and `down` are the two directions of the socket. Rime
answers a text with chunks and a done at any time or never, discards on `clear`, and may close
at any time. Rime acts only once the tasks already created have started (`tasksStarted`), as a network
round trip outlasts a loop iteration; the holder of the lock, whose handshake's end may be queued
ahead of them, and the reader do not wait for them; the watchdog's
three limits are one choice to stop at any poll, for time is abstracted.

### `VoiceCall`

`version`, `tag`, `outcome` are the gate of `TurnGate`; `current`, `quiet`, `dones` the facade of
`Speech`; both modules' actions are conjoined with the pipeline's own. `busy` is the detector's
flag, `stage` and `gate` the state of each `_run_turn` task, `sayer` whose reply the current
utterance is. The composition is over the abstract specifications: that the real turn
manager and streamer implement them is what `ImplementsGate` and `ImplementsSpeech` show.
`Speech` lets an utterance end at any time, so `VoiceCall` allows every timing of `on_done` that
the streamer has. Transcripts hold words; Deepgram's empty ones are filtered before the
detector, and the browser sends no typed text. A user who hangs up is one who says no more.

### `Playback`

`stream`, `left` and `half` are where Rime is in the bytes of which text; `carry` is `_pcm_carry`,
told apart by the text its byte is of; `out` is the outbound queue, `net` what the browser's
socket holds, `queue`, `started` and `waited` the player's state (`waited` its clock since
`firstChunkAt`). `quiet` of `Speech` is `_dropped`: `RimeStreamerProofs` proves that a cancel implies it
(`QuietDrops`), and only a cancel sets it; that Rime is sent the texts in order (`NextText`) is what
`TextsAreHeardInOrder` proves of the streamer. `silenced`, `late`, `shown` and `hushed` are history. A
tick of the player is one frame, `Cushion` and `EscapeFrames` are its 500 ms and 100 ms in frames,
`EscapeAfter` its 1.2 s in ticks; amplitudes (fades, resampling) are left out. Transcripts share the
queue with audio, as in the code, and count against its cap. The page's branch for
`interrupted`, with the flush behind it, has no action: no code sends that message.

### `DemoScenario`

`version` and `pending` are the store's keys for each session; `Sessions` are the modes when all
clients share a Redis (`SharedRedis`) and the runs themselves when each has a fake one. `Start` is
`_reset_to_seed`, `store.reset`, the manager's constructor and the first dispatch, which nothing
suspends; `Interrupt` is the stretch behind the sleep; `Discard` and `Apply` are the two outcomes of
`_on_tool_result`, with the in-process commit. `intruded` and `touched` are history: the runs whose
version, or whose row, someone else has changed while they ran. Initially the table is as callers
have left it; they go on writing any row (`OtherSessionCommits`). A row is its date and
whether it is cancelled. What `TurnManager` shows of one session is not repeated: here several
managers, each with its own calls, use one session's keys.

### `CallLifetime`

`phase` is what `ws_call` awaits; `sttWs`, `sttHttp` and `reading` are `_ws`, `_http` and `_task` of the
Deepgram streamer; `ws` stands for `_ws` and `_http` of the Rime streamer, which are set and
forgotten together but for the await of the session's close; `sock` and `http` follow the socket
and HTTP session of each task that opened one, referenced or not. `task` is how far `warm_up`, the
greeting and each turn have come. A close that was begun is one step at its end, so that the tasks go
on in between. `late` is history: the tasks whose handshake ended after `close()` had let go.
What is said, cancelled and completed is `RimeStreamer`'s, the order at the lock too: here any
waiting task may be next.

### `Conversation`

`history` is the list of the same name, an entry being its kind and turn; `prompt` is what the last
LLM call of a turn quotes, `known` the length of the list when that call was begun. The loop's stretch
that appends transcript and reply is two steps (`TellTranscript`, `TellReply`) between which no
task runs (`loopFree`), but a thread may read (`Read`). Versions and speech do not matter to the
list: the reply is told whether it is spoken or dropped. Nothing shows that the turns of
`VoiceCall` and these are the same but that both are translated from `_run_turn`.

## Runs

| Run | Checks | Shows |
|---|---|---|
| `tm_local` | `TypeOK`, `NoLostUpdate`, `PlayingIsCurrent`, `StaleNeverWrites`, `ConfirmedIsStored`, `FreshIsAnswered`, `ImplementsGate` | in process and without a hook the claim of the project holds |
| `tm_http` | `UndisturbedCommitObeys`, `EveryCallEnds`, `ImplementsGate` | over HTTP, with a hook, calls are decided once, every task ends, and a commit whose booking nobody wrote meanwhile does what was asked |
| `tm_http_write` | `StaleNeverWrites` violated | over HTTP an interruption between check and write leaves a stale write |
| `tm_hook_speech` | `PlayingIsCurrent` violated | an interruption during the hook is followed by the stale confirmation |
| `rime` | `TypeOK`, `CompletionPending`, `ActiveIsSpeaking`, `HeardInOrder`, `ImplementsSpeech`, `EveryUtteranceEnds` | every utterance ends once or is superseded, whatever Rime does; a cancel silences; texts are heard in the order they were spoken in |
| `rime_cancelled_sent` | `CancelledIsNotSent` violated | a text cancelled at the lock is sent after a new `speak()` |
| `voice` | `TypeOK`, `RepliesAreCurrent`, `RepliesCanBeInterrupted`, `OwnSpeechDropsNoReply`, `EveryTurnEnds` | overlapping turns and interruptions of a call |
| `playback` | `TypeOK`, `FramesAligned`, `EndFollowsAudio`, `EveryEndIsShown`, `ShortSpeechIsPlayed` | samples stay whole and ends arrive, in order, whatever is shed; short utterances are played |
| `playback_plays_on` | `InterruptedStopsPlaying` violated | the player finishes what it holds of an interrupted utterance |
| `demo` | `TypeOK`, `InterruptedIsDiscarded`, `EveryRunTellsItsStory`, `PendingIsRunning`, `EveryRunEnds` | a run no other intrudes on discards the interrupted lookup, applies the correction and reports both, from any table and store; every run answers |
| `call` | `TypeOK`, `ClosedCallIsReleased`, `OneConnectionToRime`, `NoTurnBeginsLate`, `HangUpEnds` | hanging up at any moment releases the call; at most one connection, opened by a task that was not waited for, is left |
| `conversation` | `TypeOK`, `ExchangesAreWhole`, `PromptsAreCurrent`, `ResultsFollowRequests` | overlapping turns and threads that read in between leave the history in order and the prompts complete |

The violated properties are statements of the repository's own comments and documents;
"findings" in `PROJECT.json` quotes each.

### Bounds

* `tm_*`: two calls, since every hazard is between two tasks, or a task and the user; three
  versions, so that a call can be overtaken twice and two calls can belong to different stale
  turns; two ids, one free for an insert; requests for two columns of the same row, one with a
  null, a cancel, a create, an insert that is refused, a search with more rows than the limit
  after a create, a search for blanks and a missing row, which raise; another session that moves another column of the same row.
* `rime`: three utterances, so that one can be on the wire, one at the lock and one just
  created; two cancels, one chunk for each text. The counters `Utterances`, `MaxCancels` and
  `MaxChunks` bound calls of the environment only.
* `voice`: three turns and three versions (two interruptions), and one utterance for each turn
  besides the greeting.
* `playback`: two utterances, so that the bytes of one can meet those of the next; two chunks each,
  even or odd; one transcript, which interrupts or not; a queue of two messages, which bursts
  overflow; a cushion of three frames, which one utterance cannot fill and two can, and an
  escape above one frame.
* `demo`: two runs, for the hazards are between two; two modes, so that they share a session or not; a
  booking that is seeded and one that is not; two dates. Each run starts once, after the other or
  beside it.
* `call`: three turns, with `warm_up` and the greeting five tasks at the lock: a socket's holder, one
  that gives up, one that opens a second after `close()`, and one more behind it.
* `conversation`: three turns and prompts of three entries, less than the six that the turns may
  tell, so that a prompt may begin within an exchange.

Deadlock is checked for `tm_*`. The other modules stop when the bounded environment has nothing left
to do, or the call is over, so they do not check it; `EveryUtteranceEnds`, `EveryTurnEnds`, `EveryEndIsShown`,
`EveryRunEnds` and `HangUpEnds` say that nobody is left waiting.

### Fairness

Weak fairness on the steps of each task: the event loop runs what is ready, a sleep ends, an
HTTP request is answered or times out after 30 s, a handshake succeeds or raises, the watchdog
of an utterance ends its loop after 60 s at the latest. The LLM and the tools answer or
raise. Nothing is assumed of the user, of other sessions or of Rime, whose actions have no fairness.
`Playback` assumes only that the writer, the page and the audio thread go on.
`VoiceCall` and `CallLifetime` assume that an utterance ends, which `rime` checks as `EveryUtteranceEnds`.
`DemoScenario` assumes that a run goes on once it has begun, for its sleeps end. `CallLifetime`
assumes that a close ends (aiohttp bounds it), that a handshake succeeds or raises and that the LLM does.
`Conversation` states no fairness, as it states no liveness.

## Proofs

All theorems hold for every value of the constants allowed by the named ASSUMEs of the modules; some
are about one configuration (in-process tools, a shared Redis) and two about finitely many turns, and
assume that in their statements. Most state the property of a run; a few, defined beside their proof,
say what the runs' properties leave open.

* `BookingToolsTheorems`: the types of what the tools answer and the commit stores, and
  `StaleCommitObeys`: a proposal read from one table and committed on another does what its request
  asks for exactly if the columns the request is silent about (`Untold`) still hold what they held, or
  held NULL. With one table it is `CommitObeysRequest`: storing the whole proposed row at once changes
  only the columns the request gives a value for. The commit skipping nulls is what makes it true of
  an update with a null in its changes. `AnswersReadOneRow` says what a mutating tool reads.
* `TurnManagerProofs`: the inductive invariant is `TypeOK` and the facts that tie the stages of
  a call to its tag, request and answer and to the client in use. From it follow, for both clients,
  `TypeCorrect` (checked in `tm_local` only), `SessionImplementsGate` (each step is one step of
  `TurnGate` or none) and `UndisturbedCommitsObey`: the proposal of a call that is not `raced` is what
  its tool would still answer (`Undisturbed`), as a commit leaves the other bookings' proposals alone
  (`CommitSpares`). For in-process tools: `LocalStaleNeverWrites`, `LocalConfirmedIsStored` and
  `LocalNoLostUpdate`, the last by `CommitObeysRequest`, as read and commit fall into one step.
  `UnhookedPlayingIsCurrent` needs in-process tools without a hook: with a hook, `tm_hook_speech`
  refutes it. `ActingIsAccepted` is what is left of these where they do not hold: writing, confirming
  and speaking are of accepted calls, and a call is accepted only in its turn.
* `RimeStreamerProofs`: the inductive invariant adds to `TypeOK`, `CompletionPending` and
  `ActiveIsSpeaking` that no task or field holds a token not handed out yet (`TokensKnown`: a
  new utterance cannot be ended by an old mark), that `_sent` and the watchdog belong to an
  utterance (`OnlyUtterancesSent`), that a cancel before the first `speak()` is the only source of
  a completion of token 0 (`EarlyFires`), that chunks are dropped after a cancel (`QuietDrops`:
  only a streamer that is `active` re-opens forwarding, and it is not active after a cancel) and
  that the once-only mark agrees with the completions made (`DonesCounted`). `ReadyGrows`,
  `QueueGrows` and `CompletionKept` say what a step does to the tasks, `Endings` what it does to
  completions. `TextsAreHeardInOrder` follows a text through five stages (created, waiting at the
  lock, asked of Rime, arriving, heard): each stage is in order and none holds a text later than one
  of a stage behind it (`OrderInv`). `StreamerImplementsSpeech` combines all this.
  `NothingFollowsALoss` needs only that a handshake is begun without a socket (`SocketPhases`).
* `PlaybackProofs`: `SamplesStayWhole` rests on `CarryMatches`: while nothing is late, the carried
  byte is the first half of the sample Rime is in the middle of, unless that text has been silenced,
  in which case there is none. This needs all three resets of the carry (the cancel's, the dropped
  chunk's, the even frame's). `EndsFollowAudio` needs that every reported end of an interruption is of a
  silenced utterance (`EndsKnown`) and `WayStep`: a step removes messages from the front
  and adds at most one behind. From `WayStep` and its counterpart for the player (`QueueStep`) also
  follows `TextsArePlayedInOrder`: with late chunks too, frames stay in the order of their texts.
* `VoiceCallProofs`: the inductive invariant adds to the type invariant and the three properties that
  the turn that speaks has come to its end (`SayerSpoken`), so that nothing more happens to it, and
  that no turn's versions are ahead of the current one, nor its own ahead of its gate's
  (`VersionsGrow`). The check before a reply and the raising of the flag fall into one step, and each
  interruption silences what is spoken as it lowers the flag. `StaleIsSilent` adds that a turn that
  has called a tool speaks only of an accepted result, and counts the utterances: one for each turn
  that has spoken. Hence `BoundRefusesNobody`: a bound above the number of turns, as the run has,
  leaves no behaviour out.
* `DemoScenarioProofs`: the invariant says of a run that nobody has intruded on which version its
  session has and its calls are tagged with, at each of its stages (`OnCourse`), of one whose row
  nobody else has written what the row holds (`RowOnCourse`), and that a session's pending calls are
  running calls of its own runs (`PendingKnown`). The theorems follow from these. A run is intruded on
  only by another that uses its session (`IntrudersKnown`): with a shared Redis one of its mode,
  without one none, so that `PrivateRunsAreSafe` has no premise on other runs.
* `CallLifetimeProofs`: `ClosedCallReleased` needs what each phase of the close has released
  (`SttReleased`, `TtsReleased`: a streamer that was closed has no socket or a late one) and that
  nothing is open that the streamer does not know, but for a handshake (`SocketKnown`); `OneConnection` also
  that the lock has one holder (`LockHeldOnce`), as only the holder opens a socket or the HTTP session
  of a handshake, and only if there is none; a handshake that fails closes its session.
* `ConversationProofs`: each prompt is the end of some beginning of the history (`Quotes`), a turn
  tells its transcript once and before all else (`Told`), and between the two appends of an exchange
  its transcript is the newest entry (`Telling`). A lemma then carries what holds of the history
  over to every window on it.

Only model-checked: the liveness properties (`FreshIsAnswered`, `EveryCallEnds`, `EveryUtteranceEnds`,
`EveryTurnEnds`, `EveryEndIsShown`, `ShortSpeechIsPlayed`, `EveryRunEnds`, `HangUpEnds`), which are out of the prover's reach.

## Not modelled

What the LLM decides and the wording of its prompts, the parsing of Deepgram's messages and the
microphone's capture, the event log, connection set-up, the static pages and the evidence scripts.

Known of the code, in the models, and not stated as a run:

* a `done` carries no id, so one that arrives late ends the next utterance early (`ReadDone` of
  `RimeStreamer`; the comment at `tts_rime.py:231` says otherwise);
* a confirmation may be spoken with the busy flag down, for the end of any utterance clears it
  while a tool call is pending (`SpeechDone` of `VoiceCall`; `stt_pipeline.py:117` says otherwise), and
  the flag falls when an utterance is synthesized, not when it has been heard (`SpeechDone` of
  `Playback`);
* a chunk that `late` of `Playback` stands for may start in the middle of a sample and then shifts every
  frame of the next text (`FramesAligned` without its premise fails);
* a tool that raises leaves the busy flag up (`VoiceCall`) and its call pending (`HttpRunRaises` of
  `TurnManager`); neither of this nor of a commit that raises or comes too late is the user told;
* the start cushion applies to the first utterance of a call only (`Play` of `Playback`);
* a handshake under way when the browser hangs up, or a turn that speaks after it, leaves a
  socket to Rime behind (`late` of `CallLifetime`), and a constructor that raises leaves the writer and
  `warm_up` (`Refuse`);
* of two demo runs that share a session, the second resets the version of the first, whose
  interrupted lookup may then be applied (`intruded` of `DemoScenario`);
* a socket to Rime that has closed is kept, so that nothing is heard for the rest of the call
  (`NothingFollowsALoss`);
* a reply that is dropped stays in the history, and a transcript on which the LLM failed is never
  in it (`Conversation`).

What could be added: a refinement of `Playback`'s bytes by the reader of `RimeStreamer`, so that `late`
follows from a run of the streamer (`CancelledIsNotHeard`); `Conversation` and `CallLifetime` as refinements
of one module with `VoiceCall`'s turns.
