# ai-toolkit in TLA+

This directory holds TLA+ models of ai-toolkit, a Go library for building
agents: a client for language models, a tool-calling agent, sub-agents, MCP
servers, tool packs, skills, and the child processes behind several of them.
The models are checked with TLC on small instances; the properties that matter
most are proved with TLAPS for every instance.

- `X.tla` models a component, `MCX.tla` gives it an instance for TLC, and
  `X_question.cfg` is one run of that instance.
- `XProofs.tla` holds the theorems about `X.tla`; `LlmProofs.tla` those about
  the two halves of a client, `Chat.tla` and `Providers.tla`, and
  `CommandProofs.tla` those about `Process`, `Run` and `CommandTool`.
- `PROJECT.json` lists the components, the runs, where each definition comes
  from, the hazards, the theorems, and a mutant for every property: a plausible
  bug, written as a definition beside the one it would replace, which TLC must
  find with the same run. The mutants are the definitions whose comment begins
  with "Mutant of".

## 1. The system

| Part | State | Operations | Why it is hard |
|---|---|---|---|
| `agent` | conversation, cached model limits, threshold, skills of the session, tool box, feedback | StartSession, ResetSession, Process, CompactContext, ChangeModel, ModelInfo, SetFeedback, Close | the model fails between two appends; compaction cuts the conversation; limits belong to a model; skill tools live in a box others use; a listener hears of every step once |
| `subagent` | agents by name, a busy mark per registration, the feedback | Register, SetFeedback, Run | runs at once, names registered again, clean-up on every error path |
| `mcp` client | tool names registered, connected, the tool box, a mutex, the session's ready flag | newClient, list changes, disconnection, Close, tool calls | the SDK's callbacks, the session's end and Close run in goroutines of their own; lists are fetched outside the lock |
| `mcp` pending requests | a map of calls in flight, a timer and a mutex for each | begin, reset on progress, stop | a timer's goroutine, a notification and the returning call meet |
| `mcp` manager | configurations, running clients, a mutex | Register, Start, Stop, Status, Instructions, Close | servers fail to start, die, and are started again while the end of the old client is still to be noticed; all register in one box |
| `llm` client | model and effort behind a read-write lock | Chat, ModelInfo, ChangeModel, ChangeEffort | a request holds the lock while a provider streams |
| providers | what has been read of a reply | chat, mapping of messages | fragments in any order, streams that break off, three forms of one conversation |
| `internal/rest` stream | a timer, a body, the flag `expired`; the lines of an event | Read, Close, Events | the timer's goroutine closes what a reader reads; a body ends inside an event or a line |
| `internal/command` process | a child, its pipes, three goroutines, `closeOnce` | Write, Output, Close, OnExit | exit, end of output, signals and Close in every order |
| `internal/command` run | a result being collected | Run | output limit, context, exit |
| command tools | one call | shell_run, skill scripts | two contexts and a timeout race |
| `tools` box | tools by name, an interceptor | Add, Remove, SetInterceptor, Execute | shared by everything that offers tools |
| packs | the names a pack registered, its resources | construct, its tools, Close | packs with the same names; Close beside calls |
| file pack | an `os.Root`, the file system | read by pages, write, edit, delete, Close | several system calls per operation |
| `internal/search` | the matches so far | Files | one budget over many files |
| skills | the skills by name, each with its text and its files | Add, Catalog, the three tools | folders are read without the lock, and change afterwards |
| `decision` | none | Ask, the three tools | questions, answers and levels are paired by key, in two providers' terms |
| `tools` schemas and arguments | none | ObjectBuilder, Arguments | each tool's schema and handler are written apart |
| command environment, `rest` client | none | conversions, configuration | see section 7 |

They meet in four ways. **Calls**: an agent calls the llm client and executes
tools from its box; a sub-agent run is a session of another agent; a pack
calls `command.Run` or `search.Files`. **A shared tool box**: MCP clients,
packs, skills and the program add and remove tools in one box, each under the
box's lock but several at a time. **Callbacks**: the MCP SDK reports list
changes and progress in goroutines of its own, `OnExit` and timers run in
theirs. **Channels**: a process's output, its input, its exit and its closing.

What makes each part correct:

- a client's tools are in the box exactly while it stands for one list the
  server published, and none is left when it ends;
- a call times out when, and only when, its server was silent for the whole
  timeout, and nothing outlives it;
- one server per name, none that cannot be stopped, and the tools of each in
  the box for as long as it runs;
- runs of different sub-agents do not see one another, and leave nothing;
- every conversation shown to a model pairs each call with its result, and
  whoever listens to the agent hears the same;
- a process that was closed is gone, and output that ended is complete;
- a streamed reply is whole or it is an error, and every request says what the
  conversation says;
- what a tool reports about files is what was there;
- a tool runs the calls its schema and its descriptions promise, and no other;
- a skill stays what the model was told it is;
- an answer belongs to the question that was asked.

## 2. The modules

| Module | Models | Composes |
|---|---|---|
| `ToolBoxOps` | `tools/tool_box.go`: Add, Remove and Tool as operators on a function from names to entries | |
| `ToolBox` | the box in use: packs that register and remove one tool at a time (`packs/pack.go`, `packs/date.go`), the interceptor, Execute in its three steps | `ToolBoxOps` |
| `ToolRegistration` | abstract: what an MCP client promises about its catalogue | |
| `McpClient` | `mcp/mcp_client.go`, `mcp/sdk_client.go`: registration, list changes, the session's end, Close | `ToolBoxOps`; implements `ToolRegistration` |
| `PendingRequest` | `mcp/pending.go` and the tool calls that use it | |
| `McpManager` | `mcp/manager.go` | |
| `McpServers` | the same with the clients' tools in one tool box, a mutex for each client, and the goroutines that wait for the sessions (`mcp/mcp_client.go`, `mcp/sdk_client.go`) | implements `McpManager` |
| `SubagentManager` | `subagent/manager.go`, and the feedback of an agent | |
| `Agent` | `agent/agent.go`, `agent/compaction.go`, the events of `agent/feedback.go` | |
| `LLM` | `llm/llm.go` and the `sync.RWMutex` | |
| `IdleReader` | `internal/rest/stream.go`: the body with an idle timeout | |
| `Chat` | a chat of `LLM` whose reply is read through an `IdleReader` | `LLM`, `IdleReader` |
| `Positions` | no code: what a reader has taken of a stream, told by the places it was sent at | |
| `EventStream` | `internal/rest/stream.go`: the events of a body | `Positions` |
| `AnthropicStream`, `OpenRouterStream`, `OllamaStream` | the reading of a streamed reply | `Positions` |
| `ProviderMessages` | the mapping of a conversation to each provider's request, and back | |
| `Providers` | a client's provider: the events of a body, one of the three readers, or the conversation between two chats | `EventStream`, the three readers, `ProviderMessages` |
| `Process` | `internal/command/process.go` | |
| `Run` | `internal/command/run.go` | `Process` |
| `CommandTool` | `packs/shell.go`, `skills/tools.go`, `internal/context` | `Run` |
| `FilePack` | `packs/file.go` | |
| `Search` | `internal/search/search.go` | |
| `ToolArguments` | `tools/schema.go`, `tools/arguments.go`, and what each tool of `packs` and `skills` declares and reads | |
| `Decision` | `decision`, and the tools of `packs/decision.go` | |
| `SkillCollection` | `skills/collection.go`, `skills/frontmatter.go`, `skills/tools.go` | |
| `Packs` | a behaviour of a box, of a call, of a file pack, of a search, of a decision or of a skill collection | `ToolBox`, `ToolArguments`, `FilePack`, `Search`, `Decision`, `SkillCollection` |

How state and steps correspond to the code:

- A goroutine is an element of a set (`Threads`, `Callers`, `Runs`, ...) with a
  program counter; an action is what it does between two points where another
  goroutine can see the difference. Work under a lock that nobody else reads is
  one step; calls into the tool box, which has a lock of its own, are one step
  each, so the loops of `registerTools` and of a pack's Close are interleaved
  with everything else.
- A channel that is only ever closed is a Boolean (`exited`, `closing`); a
  `sync.Once` is its owner and a flag; a mutex is its holder. The pipe is a
  count of lines, because pipe and channel keep their order.
- Timers count ticks. A timer that is due stays due until its function runs, in
  a goroutine that may start late; between two lines of the function anything
  may happen.
- Tools, names, models and texts are model values or short sequences. Tool
  names keep what matters of `toolName`: two tools whose names collide once
  sanitized, one whose name the box refuses, and the name that ends in a hash.
  A message is its role and the ids that pair calls with results; a delta of a
  stream stands for its text and is told apart by its place in the stream.
- What the code does not decide is a choice: servers that die, list or fail to
  list, models that answer or fail, a command that ignores SIGTERM, events in
  any order.

- A tool's arguments are the kinds of value JSON has, per field; a number that
  has a fraction is a kind of its own, because the accessors truncate it. A
  SKILL.md is a sequence of lines: fences, blank lines, words, and lines that
  set the name or the description. A body of events is a sequence of lines too,
  the last of which may lack its newline.
- Of a number in a call its whole part is kept, of a string whether it is well
  formed where an expression or a glob is expected, which is what the handlers
  check besides the type. A timeout is multiplied to nanoseconds in an integer
  that wraps around, as the code does.
- An error path is a step like any other: a command that cannot be started
  (`Start`), a wait that fails (`Exited`), a call refused for its arguments
  (`Refuse`), a command that closes its stdin (`InputClosed`), a skill's folder
  that cannot be read (`ReadFails`), a connection that breaks (`IdleReader`).

`McpManager` says of a client only whether its tools are offered. `McpServers`
adds where they are, without a second copy of the manager: its steps conjoin
those of `McpManager` with what happens to the box, and a step between leaves
the manager's variables alone. `McpClient` has variables of its own, and
implements `ToolRegistration` through a mapping of them.

`Packs` and `Providers` put side by side parts that never meet: a search does
not see the box, and a client has one provider for life. A variable says which
part a behaviour is about, and each property is about its own part.

## 3. The runs

Every run is exhaustive within its bounds.

**`McpClient_registration`** (`MCMcpClient`). One NewClient, a goroutine for
each of two list changes, the goroutine that waits for the session's end, a
caller of Close, a server that publishes any of three lists (two tools whose
names collide; one that is excluded beside one whose name another owner wants;
one that cannot be registered), fails to answer or dies at any point, and
another owner of the tool box who adds and removes a tool of the same name at
any moment, also between the check for a free name and the Add. Tools keep their
own names (`NoToolPrefix`), which is the case with the extra check. It shows:
that a client which is not connected offers nothing,
however late a list arrives (`NoToolsAfterDisconnect`); that between
registrations the client stands for exactly one published list (`OneListing`);
that a NewClient that fails leaves neither tools nor a server
(`FailedLeavesNothing`); that the names are withdrawn before others are offered
and never come back after the end (`ImplementsRegistration`, the abstract
specification); that the end of the session is always noticed and cleaned up,
and that Close returns (`EndCompletes`).

**`McpClient_two_changes`** finds a disagreement with the documentation. "A
server that changes its tool list gets its tools registered again
automatically" is `Converges`; the list is fetched outside the lock, so of two
overlapping changes the one that fetched first can register last, and the
outdated list stays.

**`PendingRequest_timeouts`** (`MCPendingRequest`). Two calls with a timeout of
two ticks, two goroutines of progress notifications, and at most two
notifications: enough for one to be between its lookup and the call's mutex, or
between `Stop` and `Reset`, while the call returns, its timer comes due, and the
other call is reset. No timer survives its call (`NoTimerAfterReturn`), a call
is ended by its timeout only after a whole timeout without progress
(`TimeoutMeansQuiet`), a timer that has fired is not armed again
(`FiredStaysFired`), and every call returns (`CallsReturn`).

**`McpManager_servers`** (`MCMcpManager`, on `McpServers`). Two callers, two
names, two servers over the lifetime: enough for one to be replaced, and for
two calls on one name to meet. One server has two tools; the other is
registered without a prefix and has one tool, of a name the first has too, so
that the check for a free name matters and either can come by the name first.
The check and the Add are two steps. Between them the removals of a client that
has ended go on; another server cannot register then, because the manager's
mutex lets one start at a time, and other owners of the box and list changes
are `McpClient`'s.
Never two servers of a name (`OneServerPerName`); none that the map does not
know when the lock is free (`NoServerLost`); Close leaves none
(`CloseStopsAll`); every call returns (`CallsReturn`). A running server keeps
its tools in the box, but for a name that it shares with another: the goroutine
that waited for an earlier client of the name may run `disconnected` at any
time after, and takes nothing away that the new client has registered
(`ToolsStay`). And no tool in the box belongs to a client that no longer
remembers to take it out.

**`SubagentManager_runs`** (`MCSubagentManager`). Two runs over three
registrations and two names, one registered again while it runs; two feedbacks.
Two of the sub-agents have skills. During a run its agent holds this run's
conversation, skill tools and feedback, and only the feedback the run started
with hears of it (`RunsIsolated`); between runs nothing is left
(`NoSessionOutlives`); every run returns (`RunsReturn`).

**`SubagentManager_renamed`** finds a disagreement with the documentation.
"Only one run of a sub-agent can be in progress at a time" is `OneRunPerName`;
registering a name again gives it a new busy mark, so a second run begins.

**`Agent_sessions`** (`MCAgent`). Conversations of up to seven messages,
replies with up to two calls, two models with different windows, token counts
on both sides of one threshold and at the edge of the other, two iterations,
model calls and tools that fail at any point, sessions started over, reset and
resumed, and another owner of the skill tools' names. Conversations pair every
call with its result (`ConversationWellFormed`), a compaction keeps the system
message and the last two turns (`CompactionKeepsTurns`), and nothing of an
earlier model or session survives: the threshold in force is the current
model's, and the skill tools are in the box exactly while the session has them
(`NothingStale`). A listener that
counts hears of every call and its return in turn, of every reply that asks for
tools, of every session and compaction, and counts what the response counts,
whatever fails and whenever the feedback is replaced (`FeedbackTells`). Seven
messages hold three turns with a reply each, the least that compaction can
shorten.
`EmptyFirstInput` is FALSE: Process is given a prompt before it is called with
none to go on; section 6 says what happens otherwise.

**`Process_lifecycle`** (`MCProcess`). A process that writes two lines into a
pipe of one, exits, ignores SIGTERM or closes its output or its stdin at any
time, a child
that may hold the output longer, the reader and another goroutine that both
call Close, and two Writes. A Close that returned finds the process reaped and
`OnExit` called once (`CloseReaps`); Close returns, after it both loops end, and
no Write waits for ever (`CloseCompletes`). That output which ended before any
Close is whole (`OutputComplete`) is proved, and shows in `CommandTool_calls` as
part of `ResultIsWhole`. One line more than the pipe holds makes the
reader, the process and the channel wait for one another.

**`CommandTool_calls`** (`MCCommandTool`). One call of a tool on top of `Run`
and `Process`, with a limit of one line, a child that outlives the command, and
a caller with or without a deadline. The arguments may be refused, the command
may not start, and waiting for it may fail. A result has every line or is marked
(`ResultIsWhole`), nothing runs when Run has returned, with whichever error
(`NothingLeftRunning`), and every call answers (`EveryCallAnswers`). What the
model is told is true (`AnswerIsTrue`): a timeout means that the timeout ended a
command which had started and is gone; an error means that the call was
refused, that the command never started, that its wait failed, or that the
caller gave up, also while the timeout was stopping the command. A status other
than zero is output, not an error.

**`Chat_streaming`** (`MCChat`). One caller chats over and over, two ask about
the model or change it, one of them without a deadline (`Patient`); the provider
of the chat sends a piece or none, stalls, ends or breaks off. A request is
answered under the configuration it was sent with (`RequestsSeeOneConfig`), a
stall is reported as such and not as a broken connection (`StallReported`), a
finished chat leaves neither connection nor timer (`ClosedIsReleased`). A chat
whose request was sent returns: the read lock is held no longer than the timer
lets a silent provider. And every operation returns, neither changes nor
requests being put off for ever, if no ModelInfo of the patient caller hangs for
ever (`OperationsReturn`): ModelInfo holds the read lock for a request whose
body is read without a deadline, and one that is never answered keeps the first
change waiting, and everybody after it. One of the models is not in
Config.Models and stays refused; one effort is not valid.

**`Providers_replies`** (`Providers`). Bodies of up to six lines (data, blank
or other), which may end in the middle of a line, break off, or be left by
their reader: two events of two lines each, and the blank line after each.
Streams of up to seven events over three block indexes for Anthropic, three
chunks with three fragments in all, over two indexes, for OpenRouter, three
chunks for Ollama, in any order, well formed or not; and conversations of up to
five messages whose replies come from any of the three. Seven events are what
two blocks with a delta each and an end need; three fragments can interleave
two calls. An event has the data of its lines and of no others, and a reply is
whole or an error (`RepliesAreWhole`); Anthropic's requests alternate roles and
answer every call at once (`ResultsAnswerCalls`); the three providers are shown
the same conversation, and Anthropic's own replies go back to it unchanged
(`SameConversation`).

**`Packs_tools`** (`MCPacks`). Two packs of one kind and one that shares a name
with them, one caller of the tools, two policies and none; two callers of a file
pack, interchangeable (the run's symmetry), whose calls overlap, over texts with
empty lines, lines too long and with or without a last newline, in pages of two
lines and three bytes; searches over two files of three lines. For each of the
fifteen tools, calls with any subset of its fields, each a value of any kind:
strings that compile and that do not, and numbers on both sides of one and of
the longest timeout (`MCNumbers`), with and without a fraction. The longest
timeout is three milliseconds of four nanoseconds, in an integer that ends at
32: the number 17 wraps around to an admissible timeout. One or two questions to
a decision model, well formed or not, in a program's or a tool's words, and
answers that are missing, of another type, for levels that do not exist or for
one level twice. Two programs that add skills from two folders which change
once, with good frontmatter and bad: enough for both to declare one name, and
for a listed file to disappear. A pack closed again takes away nothing of a
newer one (`SecondCloseHarmless`); pages read one after the other make the file,
if it did not change meanwhile (`PagesJoin`); a search result that is not marked
is complete, and one that is marked holds the first matches of more
(`MarkIsHonest`); a handler runs exactly the calls that keep to its schema and
to what its descriptions say, lines and limits from one on, patterns that
compile, timeouts within their range (`ArgumentsAgree`, with the one liberty the
accessors document: a number with a fraction passes for an integer; and but for
timeouts that overflow, see section 6); an answer, and each level of it, is to
the question and the level asked, as far as to what the tool shows
(`AnswersAsked`); and a skill of a session's prompt can be loaded for ever, says
the same every time, and has the files it was said to have, or they are reported
missing (`SkillsStay`), also when a folder turns out unreadable half way through
an Add.

Deadlock is checked in the runs of `McpClient`, `PendingRequest`, `McpManager`,
`SubagentManager`, `Agent` and `Chat`, whose programs go on; `CHECK_DEADLOCK
FALSE` is said where the system does come to rest: a process that is closed, a
call that has answered, a reply that was read, a pack that is closed.

## 4. Fairness

Only what the Go scheduler, timers and the bounds named here provide.

- Every goroutine that can take a step does (weak fairness per goroutine, and
  per loop). A goroutine that waits for a mutex gets it: Go's mutex hands itself
  to a waiter that has starved, hence strong fairness for `Lock` in
  `McpManager` and, among writers, for `Announce` in `Chat`. A reader of the
  `RWMutex` that was kept out by a writer goes before the next writer, which is
  part of the model and not of the fairness.
- Time passes and due timers run (`PendingRequest`, `Chat`); grace periods end,
  and a process that was sent SIGKILL dies (`Process`). A process owes nothing
  else: it may write, exit, or do neither for ever.
- A server owes no answer: `tools/list` and `initialize` run under timeouts of
  the client, so a call of them ends, well or not. Nothing makes a server
  change its list or die, or a caller call.
- A provider owes no piece of its reply, and not its end. Its headers are
  bounded by the transport's `ResponseHeaderTimeout`
  (`internal/rest/client.go`), so a chat that was sent comes to its body, which
  the idle timer bounds. ModelInfo's body has neither: its request ends with the
  caller's context (fairness of `PlainAnswer`), and for a caller without a
  deadline (`Patient`) nothing is assumed; `OperationsReturn` says what then
  depends on it.
- In `McpServers` a goroutine that waits for a session runs once the session is
  over. The mutexes of the clients need nothing more: a client's is wanted by
  its own goroutine, once, and by the call that holds the manager's lock.
- In `SubagentManager` a run in progress goes on: its model and tools answer or
  fail, and `Agent` and `CommandTool` say why.
- In `CommandTool` a timeout passes, and so does the deadline of a caller that
  has one; a caller without a deadline may wait for ever.

## 5. What is proved

Theorems checked by TLAPS, for every value of the constants that satisfies the
named assumptions: every invariant and action property of the passing runs.
What they say of progress is only model-checked (section 7). Each theorem rests
on an inductive invariant, a conjunction of named parts (`IInv`, `Core`,
`FileInv`, ...) that TLC found to hold before it was proved; a step of the
proof for every action, and temporal logic only in the last line.

- **`McpClientProofs`**, from the assumptions on names, tools and goroutines in
  `McpClient`: `TypeCorrect`; `Invariance`; `DisconnectedOffersNothing`
  (`NoToolsAfterDisconnect`); `ToolsStayTracked`; `FailureLeavesNothing`
  (`FailedLeavesNothing`). That a disconnected client offers nothing is not
  inductive: one has to know which variable accounts for the tools in the box
  in each phase of the lock's holder. While the lock is free it is `c.tools`;
  while the holder removes, what it has still to remove; while it adds, what it
  has added. And the holder can add only if the client was connected when it
  took the lock, which is where the second check of `connected` comes in. That
  a failed `NewClient` leaves nothing follows, with `FailedInv`: it failed
  before there was a session, when nothing had happened yet, or after `Close`
  ended the session and disconnected. `ListingInvariance` follows a list from
  the server to the box: each goroutine holds a list that was published, the
  names it has registered are those of the specs it has been through, and the
  client's are those of a whole list. From it `KeepsRegistration`
  (`ImplementsRegistration`: every step is one of `ToolRegistration` or leaves
  the catalogue alone) and `AlwaysOneListing` (`OneListing`). The latter also
  says that each kept tool has a name of its own, and supposes
  `HashesDistinct`: no two tools get one name with the hash in it. `toolName`
  leaves that to SHA-256, and so does the theorem.
- **`PendingRequestProofs`**, for any number of calls and notifications and any
  timeout: `ReturnDisarms`, `TimeoutsAreIdle`, `NoRevival`. The invariant says
  who holds the mutex of a call, that a notification between `Stop` and `Reset`
  has stopped the timer of a call that has not returned, and that what has
  passed and what is left of an armed timer make up the timeout.
- **`McpServersProofs`**, for any number of callers, names and tools, whatever
  names the servers share. First of the manager alone: `SingleServer`,
  `ServersTracked`, `CloseIsComplete`, from an invariant that accounts for every
  connected client: it is in the map, or in the hands of the holder of the lock;
  and for Close, that what it has not reached is still to do. Then `Implements`:
  `McpServers` is `McpManager` when the box is not looked at, so that what is
  proved of the manager holds with the box. And `ToolsAreKept` (`ToolsStay`).
  Nothing in the box says whose a
  tool is but the name of the client that runs it, and what a client takes out
  is what its own list says. The invariant (`ServersInv`) relates the two: a
  tool in the box is in the list of its client, or in the registration's local
  list; a client that remembers tools is connected, and connected clients have
  different names (from the manager's invariant); so what the late end of a
  client finds in its own list is nothing, or its own.
- **`SubagentManagerProofs`**: `Isolation` and `NothingOutlives`, for any
  number of runs, under `NothingShared`: no two registrations share an agent or
  a tool box, which the package asks of its users (`subagent/doc.go`). The
  invariant adds that an agent without a run in its session is clean, and that
  a run about to start has installed its own feedback.
- **`AgentProofs`**, for any models, windows, limits, replies and lengths of a
  conversation, with as many compactions, resets and resumptions as one likes.
  `Core` (`Invariance`) has the types, the phase of the call in progress and
  the shape of the conversation: the system message first and only there, and
  a summary only second. From it `NothingSurvives` (`NothingStale`) and
  `TurnsAreKept` (`CompactionKeepsTurns`), which needs where a compaction cuts:
  before a turn that fewer than two turns follow. `CallsArePaired`
  (`ConversationWellFormed`) is not inductive, because results arrive one by
  one: the invariant is that of the conversation followed by the results still
  to come. It supposes `EmptyFirstInput = FALSE`, as the run does; §6 says what
  happens otherwise. `FeedbackIsTrue` (`FeedbackTells`) rests on a second
  invariant, that what the handler has counted is what the phase and the
  conversation make it.
- **`CommandProofs`**, for any number of closers and writers, any pipe, limit
  and timeouts. Of the process `CloseWaits`
  (`CloseReaps`) and `NothingMissing`: the invariant orders what `reap` does,
  gives `closeOnce` one owner, and counts lines: until somebody closes, each is
  in the pipe, in the reader's hand, or delivered. Of Run `RunLeavesNothing`
  (`NothingLeftRunning`), because it returns only through its deferred Close,
  and `WholeResults` (`ResultIsWhole`): once the output has ended nobody writes
  any more and every line is delivered; what was delivered is in the result, or
  the result is marked. `ToolsImplementRun`: the tools do
  with a command what Run does, so all this holds behind them. And
  `AnswersAreTrue` (`AnswerIsTrue`): between the answer and what became of the
  command stand the error Run returned, which says whether there was a command,
  and the reason its context ended, which Run does not know.
- **`LlmProofs`**, first of a chat, for any number of callers, models and
  efforts, any timeout and length of a reply: `OneConfig`
  (`RequestsSeeOneConfig`), `StallsAreTold` (`StallReported`), `ClosedReleases`
  (`ClosedIsReleased`). The invariant has
  two halves that do not depend on one another. The lock's says that readers
  and writers are those in the middle of an operation, a writer alone, and no
  writer is announced while another writes. The reader's says that whoever is
  refused by the body finds `expired` stored, because the timer stores it
  before it closes the body, so that Read reports the timeout and never resets
  a timer after a refusal.

  Then of the providers, for bodies, streams, replies and conversations of any
  length, whoever replies; the only hypothesis is `ProvidersAssumption`, that
  bounds are numbers and there is a provider.
  - `RepliesWhole` (`RepliesAreWhole`). Until there is an error, what a reader
    has taken is what was sent: `Lists` says so of single pieces, each position
    once and in order, and `ListsPairs` of pieces of pieces, a line of an event
    or a fragment of a chunk. `RepliesInv` adds what the reader has still in
    hand: the open blocks of Anthropic's, the data of the event being read. In
    OpenRouter's reader the fragments of one chunk are merged one by one into
    the calls, which is a loop; `LoopExists` gives the function of its results,
    and `Tells`, that each call has the latest name and all the arguments of
    the fragments with its index up to here, holds after each of them.
  - `ResultsFollow` (`ResultsAnswerCalls`) and `OneConversation`
    (`SameConversation`). Neither is inductive: the results of a reply come one
    by one, a message joins the one before it if to Anthropic their roles are
    the same, and every request is made anew of the whole conversation. That is
    a loop too: `ToAnthropicMessages` of one message more is one more turn of
    it, `AddMessage`. `ConversationInv` then says of the request: roles
    alternate, a user's message calls nothing, and every message with calls is
    followed by their results, in order, but for those still unanswered. These
    are the last calls of the last message, or of the one before it, and then
    the last message is the results so far (`RequestInv`). `OrderInv` is the
    same of the conversation, for the providers that pair a result with its
    call by place; and each of Anthropic's replies stands unchanged in the
    request. That the three requests say the same compares what is gathered
    from lists whose elements hold lists; the lemmas about `Gathered` say that
    gathering from a list that grew by one appends what the new element has,
    also where it went into the element before.
- **`PacksProofs`**, for any packs, texts, folders, questions, options, levels,
  documents and edits (`DecisionAssumption` and `TextsAssumption` say that
  lists are lists and texts sequences of characters):
  - `PagesAreJoined` (`PagesJoin`). `FileInv` says of a caller that pages, while
    nobody changes the file, that it has the lines up to where its next page
    starts, and that the count it was told is the number of lines. The lemmas
    are about the three ways the code looks at a text: `LinesCount` (newlines
    counted, and lines scanned), `PageIs` (a page ends inside the text) and
    `PageJoins`. Every write to the file touches every pager, which is the
    other half.
  - `MarksAreHonest` (`MarkIsHonest`). `SearchInv` says what the walk has
    collected when it comes to a line and to a file: all matches of the files
    before it, unless one past the limit was found. One past the limit is
    enough, because a budget that is used up leaves no match out before it.
  - `SchemasAreKept` (`ArgumentsAgree`): each tool by itself, from what its
    accessors accept, what its handler checks besides and what its schema
    admits, for any set of numbers, any longest timeout and any width of an
    integer that holds it; a product that does not overflow is the duration that
    is compared.
  - `AnswersBelong` (`AnswersAsked`): what is sent and what is answered go by
    the ids of the questions, and the levels of an answer by their number.
  - `SkillsAreKept` (`SkillsStay`) and `ClosedPacksAreHarmless`
    (`SecondCloseHarmless`): a skill inserted once stays, and a pack is closed
    once.

The library's induction rules take an operator as a parameter, which the
provers cannot instantiate. Where a proof has to go through a list of any
length (`McpClientProofs`, `AgentProofs`, `LlmProofs`), the property is a set
of numbers instead: a set of naturals that is not empty has a least element
(`LeastNatural`, from the well-foundedness of <), so a set that holds 0 and
with each number the next holds all (`UpTo`); and a loop over a list has a
function of its results (`LoopExists`).

What the proofs need and take from nowhere else: the named ASSUMEs, which TLC
evaluates in the runs, and the two hypotheses named above. The properties are
in the component's module, so theorem and run speak of one definition.

## 6. Where the code and its words part

Two of these have a run of their own, because a document promises otherwise;
the others are behaviours the models have, met while writing them, and the
reason for a guard or a qualification in a property.

| Where | What the code does |
|---|---|
| `mcp/mcp_client.go:178` | The older of two overlapping listings can be registered last (`McpClient_two_changes`). |
| `mcp/mcp_client.go:125` | A list change that arrives before the first registration has set the tool box is dropped; `Converges` counts only changes after it. |
| `mcp/mcp_client.go:224` | `mcp/config.go:14` says a server never replaces another tool; between the check and the Add another owner may take the name. |
| `mcp/mcp_client.go:244` | Tools are removed by name, also if another owner has replaced them since. |
| `mcp/manager.go:133` | Start reuses a client whose server has died and has not been noticed yet; `NoServerLost` is about servers, not about their being of use. |
| `mcp/mcp_client.go:222` | With a prefix a name is taken over from whoever has it, also another server: two servers whose names become one once sanitized take each other's tools. `ToolsStay` leaves shared names out. |
| `subagent/manager.go:116` | A name registered again gets a new busy mark (`SubagentManager_renamed`). |
| `agent/compaction.go:29` | Without any user message the turn to keep begins at the last message, which may be a tool's result. It takes a Process without input in a new session; `EmptyFirstInput` is FALSE in the run, and TRUE violates `ConversationWellFormed`. |
| `agent/agent.go:140` | Ending a session with an empty skill collection removes the skill tools of another owner. |
| `internal/command/process.go:218` | A Write whose process has exited may still succeed: select picks any ready case, and the message goes nowhere. |
| `internal/command/process.go:157` | A child that inherits the output keeps the reader's goroutine for as long as it lives, also after Close, unless a line arrives. |
| `internal/command/process.go:167` | The end of the output closes the process, so a command that closes its output and works on is terminated after the grace period. |
| `internal/command/run.go:110` | A command stopped at the limit may have exited by itself with a status of its own, and reports that. |
| `internal/rest/stream.go:45` | The timer runs while the consumer is busy between two reads: a slow consumer loses the stream as a silent provider does. |
| `packs/file.go:313` | A write empties the file first; a reader in between reads an empty or partial file. `PagesJoin` leaves out files that changed. |
| `packs/file.go:343` | An edit counts matches without overlap, so one that could be made in two overlapping places counts as unique. |
| `packs/shell.go:135` | The timeout is multiplied to nanoseconds before it is compared, so a `timeout_ms` of about 2^64 / 10^6 wraps round and is accepted: 18446744073710 becomes 448384 ns, less than half a millisecond, where the description (`packs/shell.go:78`) says from 1 to the maximum and the error (`packs/shell.go:137`) expects as much. `ArgumentsAgree` leaves out exactly the timeouts that overflow (`Overflows`), and TLC finds the number 17 without that. |
| `llm/llm.go:89` | ModelInfo holds the read lock for a request whose body has no deadline: a provider that stops half way keeps a change of the model, and every request after it, waiting for as long as the caller does. |
| `llm/anthropic.go:149` | A stream that says `message_stop` while a block is open gives a reply with that block as it was announced, without its text; `RepliesAreWhole` supposes that blocks are stopped. |
| `decision/openrouter_mapping.go:94` | A choice that is none of the options asked is passed on; only levels are checked. |
| `decision/openrouter_mapping.go:121` | Of two keys that spell one level (`1` and `01`) the one the map's iteration comes to last counts, and a level without a key has probability zero. |
| `internal/rest/stream.go:77` | An event that the body ends in, without the blank line that ends an event, is handed on like any other. |
| `packs/date.go:37` | Of two packs with the same tools, closing the older takes the newer one's tools; `SecondCloseHarmless` says that only the first Close does. |
| `internal/search/search.go:208` | A file that turns out unreadable after its first lines keeps the matches taken from them. |

## 7. What is not proved, and what is not modelled

Only model-checked:

- liveness and everything under fairness, which TLAPS does not do:
  `CallsReturn`, `CloseCompletes`, `RunsReturn`, `EndCompletes`,
  `OperationsReturn` and `EveryCallAnswers` (that the answers are true is
  proved).

What the functions of the models compute for every input is proved where a
property needs it, by the loops of section 5 and not by the library's rules of
induction.

Abstracted on purpose: the text of messages, lines, errors and events; the
arithmetic of tokens beyond thresholds; the walk of a directory (a search is a
sequence of files); matching (a line hits or misses).

Not modelled:

- `internal/command/env.go`, `llm/effort.go`'s names, `subagent/debugger.go`:
  conversions and formatting without state; of `tools/schema.go` and
  `tools/arguments.go` what no tool of the repository uses (numbers, objects,
  arrays of numbers and booleans);
- the pages of a server's tool list (`mcp/sdk_client.go:123`): a listing is one
  read of the list, so one that mixes two versions of it is left out;
- numbers beyond an int64 in a call, which Go converts to some integer or other;
- how long a session takes to close: the mutex of the client is free meanwhile
  in the code, and `CloseSession` is one step;
- the packs served by MCP (`code`, `finance`, `library`, `thinking`, `web`):
  configurations of a client;
- of the agent, session ids, token counts and durations; of its feedback, the
  texts between calls and the two notices that something could not be had;
- `rest/client.go`: a configuration of resty, whose retries are external;
- the MCP SDK, `os/exec`, `os.Root`, yaml and the providers: external, modelled
  by how the code uses them.

## 8. What comes next

To extend:

1. `McpServers` over list changes: registerTools of several clients at once,
   as `McpClient` has it for one.
2. `Agent` over `ToolBox`, and the sub-agent pack: an agent whose tool runs
   another agent, with cancellation from outside.
3. Scripts of a skill looked up by path, from `SkillCollection` to
   `CommandTool`.

To prove:

1. That `Agent` keeps to what `ProviderMessages` supposes of a conversation:
   that the next message after a reply is the result of its first unanswered
   call. `CallsArePaired` says nearly that, of conversations that were
   compacted and reset as well.
2. The liveness properties, with a prover that knows ENABLED.
