----------------------------- MODULE PlaygroundChat -----------------------------
(***************************************************************************)
(* The chat playground of the web console (web/src/features/playground):   *)
(* requests that stream or answer at once, a 50 ms flush timer that        *)
(* batches chunks, React state whose queued updaters run when the page     *)
(* renders, a debounced copy in localStorage, and a user who sends, stops, *)
(* edits, regenerates, deletes and leaves in between.                      *)
(*                                                                         *)
(* Abstractions.  A text is a sequence of letters, each as <<request,      *)
(* number>>, its place in the answer: the code only compares the letters   *)
(* (Word), the properties also where they come from.  An upstream sends    *)
(* each chunk alone (delta) or with all that went before (cumulative).     *)
(* Reasoning and content are treated alike and are one text; an error's    *)
(* wording, and the mark of a truncation, are the empty text.  A generation *)
(* number names its request, so the stream controller's own generation is  *)
(* ctl, the request whose source is current.  Updates made by a click are  *)
(* rendered before the next event, together with what was queued before    *)
(* them; those of a timer or of the network wait in the queue.  An updater *)
(* met by an empty queue may be run at once (React's eager state).  The    *)
(* 0 ms load timer of a new page fires before its first click.  Edits      *)
(* change a user message, whose words are not modelled.                    *)
(***************************************************************************)
EXTENDS Naturals, Sequences, SequencesExt

CONSTANTS MaxGen,       \* bound on requests, stops and page loads
          MaxLetters,   \* bound on the length of an answer
          MaxMessages,  \* bound on the length of the conversation
          Word,         \* the letters of each request's answer
          Ends,         \* where the chunks of each answer end
          Cumulative    \* requests whose chunks repeat all that went before

Gens == 1 .. MaxGen

ASSUME ChatConstants ==
    /\ {MaxGen, MaxLetters, MaxMessages} \subseteq Nat
    /\ Ends \in [Gens -> SUBSET (1 .. MaxLetters)]

VARIABLES
    msgs,      \* the rendered conversation
    queue,     \* updaters not yet run
    gen,       \* requestGenerationRef
    pend,      \* pendingStreamChunksRef
    timer,     \* streamFlushTimerRef is set
    calls,     \* requests under way
    ctl,       \* request whose stream source the controller holds
    requesting, streaming,   \* isRequesting, isStreaming as last set
    busy,      \* isGenerating as rendered
    latest,    \* latestMessagesRef
    saveTimer, \* messagesSaveTimerRef is set
    stored,    \* the conversation in localStorage
    said,      \* [1..MaxGen -> what the upstream has said] (history)
    clobbered  \* an edit replaced the conversation under unrendered updates (history)

cvars == <<msgs, queue, gen, pend, timer, calls, ctl, requesting, streaming, busy,
           latest, saveTimer, stored, said, clobbered>>
stream == <<pend, timer, ctl, requesting, streaming>>
saving == <<latest, saveTimer, stored>>
history == <<said, clobbered>>

\* In a message, cut says that a page load shortened its text (history).
UserMessage(g) == [from |-> "user", g |-> g, st |-> "none", txt |-> <<>>, cut |-> FALSE]

\* createLoadingAssistantMessage
Loading(g) == [from |-> "assistant", g |-> g, st |-> "loading", txt |-> <<>>, cut |-> FALSE]

IsPending(m) == m.from = "assistant" /\ m.st \in {"loading", "streaming"}
IsFinal(m)   == m.st \in {"complete", "error"}

NoChunks(g) == [g |-> g, txt |-> <<>>]

CInit ==
    /\ msgs = <<>> /\ queue = <<>>
    /\ gen = 0 /\ pend = NoChunks(0) /\ timer = FALSE
    /\ calls = {} /\ ctl = 0
    /\ requesting = FALSE /\ streaming = FALSE /\ busy = FALSE
    /\ latest = <<>> /\ saveTimer = FALSE /\ stored = <<>>
    /\ said = [g \in Gens |-> <<>>] /\ clobbered = FALSE
--------------------------------------------------------------------------------
(* Text. *)

\* Letters a + 1 to b of what request g says.
Part(g, a, b) == [i \in 1 .. (b - a) |-> <<g, a + i>>]

\* next.startsWith(cur): the same letters, wherever they come from.
Letter(p) == Word[p[1]][p[2]]
Begins(cur, next) ==
    Len(cur) <= Len(next) /\ \A i \in DOMAIN cur : Letter(cur[i]) = Letter(next[i])

\* mergePendingStreamChunk: a chunk that begins with what is pending replaces it,
\* as a cumulative chunk does, and as a delta that repeats the letters does too.
Merge(cur, next) ==
    IF cur = <<>> \/ ~Begins(cur, next) THEN cur \o next ELSE next

\* getAppendableChunk: a chunk that begins with the text on screen adds its rest.
Appendable(cur, chunk) ==
    IF cur = <<>> \/ ~Begins(cur, chunk) THEN chunk
    ELSE SubSeq(chunk, Len(cur) + 1, Len(chunk))

\* applyStreamingChunk
Chunked(m, chunk) ==
    IF m.st = "error" THEN m
    ELSE [m EXCEPT !.txt = @ \o Appendable(@, chunk), !.st = "streaming"]

Completed(m) == [m EXCEPT !.st = "complete"]
Failed(m)    == [m EXCEPT !.st = "error", !.txt = <<>>]
--------------------------------------------------------------------------------
(* Updaters of the conversation. *)

\* A late caller: its request is no longer the current one.
Stale_Never(g, now) == FALSE
Stale(g, now) == g # now

\* What updater u makes of the last answer m.
Updated(u, m) ==
    CASE u.kind = "chunk"    -> Chunked(m, u.txt)
      [] u.kind = "complete" -> IF IsFinal(m) THEN m ELSE Completed(m)
      [] u.kind = "stop"     -> IF IsPending(m) THEN Completed(m) ELSE m
      [] u.kind = "error"    -> Failed(m)
      [] u.kind = "reply"    -> [Completed(m) EXCEPT !.txt = u.txt]

\* updateLastAssistantMessage
UpdateLast(u, ms) ==
    IF ms = <<>> \/ Last(ms).from # "assistant" THEN ms
    ELSE [ms EXCEPT ![Len(ms)] = Updated(u, @)]

\* removeMessageByKey; no two messages of a conversation have the same key.
SameKey(m, k) == m.from = k.from /\ m.g = k.g
RemoveByKey(ms, k) ==
    IF \E i \in DOMAIN ms : SameKey(ms[i], k)
    THEN RemoveAt(ms, CHOOSE i \in DOMAIN ms : SameKey(ms[i], k))
    ELSE ms

\* What updater u makes of conversation ms when it runs with generation now.
Run(u, ms, now) ==
    IF u.kind = "set" THEN u.ms
    ELSE IF u.kind = "remove" THEN RemoveByKey(ms, u.m)
    ELSE IF Stale(u.g, now) THEN ms
    ELSE UpdateLast(u, ms)

RunAll(us, ms, now) ==
    LET after[n \in 0 .. Len(us)] == IF n = 0 THEN ms ELSE Run(us[n], after[n - 1], now)
    IN  after[Len(us)]

SetTo(ms)      == [kind |-> "set", ms |-> ms]
ForGen(k, g)   == [kind |-> k, g |-> g, txt |-> <<>>]
WithText(k, g, t) == [kind |-> k, g |-> g, txt |-> t]

\* updateMessages off a timer or the network: eager or queued.  persistMessages
\* runs with the updater.
Enqueue(us) ==
    IF us = <<>> THEN UNCHANGED <<queue, latest, saveTimer>>
    ELSE \/ /\ queue' = queue \o us
            /\ UNCHANGED <<latest, saveTimer>>
         \/ LET first == Run(Head(us), msgs, gen)
            IN  /\ queue = <<>>
                /\ queue' = <<SetTo(first)>> \o Tail(us)
                /\ latest' = first /\ saveTimer' = TRUE

\* updateMessages in a click: what is queued runs too, under the generation the
\* click leaves behind.
Show(us, now) ==
    LET shown == RunAll(queue \o us, msgs, now)
    IN  /\ msgs' = shown /\ queue' = <<>>
        /\ latest' = shown /\ saveTimer' = TRUE /\ UNCHANGED stored

Render ==
    /\ queue # <<>> \/ busy # (requesting \/ streaming)
    /\ msgs' = RunAll(queue, msgs, gen) /\ queue' = <<>>
    /\ latest' = msgs'
    /\ saveTimer' = (saveTimer \/ queue # <<>>)
    /\ busy' = (requesting \/ streaming)
    /\ UNCHANGED <<gen, calls, stored, stream, history>>
--------------------------------------------------------------------------------
(* Streams and replies. *)

\* flushStreamUpdates: the updater it queues, if any.
Flush(g) ==
    IF Stale(g, gen) \/ pend.g # g \/ pend.txt = <<>> THEN <<>>
    ELSE <<WithText("chunk", g, pend.txt)>>

Flushed(g) ==
    /\ pend' = IF pend.g = g THEN NoChunks(g) ELSE pend
    /\ timer' = FALSE

FlushTimer ==
    /\ timer
    /\ Flushed(gen)
    /\ Enqueue(Flush(gen))
    /\ UNCHANGED <<msgs, gen, calls, ctl, requesting, streaming, busy, stored, history>>

\* handleStreamComplete, handleStreamError and the answer of sendNonStreamingChat:
\* the text that is pending goes first.
Finish_DropsPending(c, u) ==
    /\ calls' = calls \ {c}
    /\ IF Stale(c.g, gen)
       THEN UNCHANGED <<queue, latest, saveTimer, pend, timer, requesting>>
       ELSE Flushed(c.g) /\ Enqueue(<<u>>) /\ requesting' = FALSE
    /\ UNCHANGED <<msgs, gen, busy, stored, history>>

Finish(c, u) ==
    /\ calls' = calls \ {c}
    /\ IF Stale(c.g, gen)
       THEN UNCHANGED <<queue, latest, saveTimer, pend, timer, requesting>>
       ELSE Flushed(c.g) /\ Enqueue(Flush(c.g) \o <<u>>) /\ requesting' = FALSE
    /\ UNCHANGED <<msgs, gen, busy, stored, history>>

\* The source of request c is the controller's: isCurrent.
Current(c) == ctl = c.g

\* getFreshAuthHeaders resolves: only the latest request opens a source.
HeadersReady(c) ==
    /\ c.at = "headers"
    /\ calls' = (calls \ {c}) \cup {d \in {[c EXCEPT !.at = "open"]} : Current(c)}
    /\ streaming' = (streaming \/ Current(c))
    /\ UNCHANGED <<msgs, queue, gen, pend, timer, ctl, requesting, busy, saving, history>>

HeadersFail(c) ==
    /\ c.at = "headers" /\ Current(c)
    /\ Finish(c, ForGen("error", c.g))
    /\ UNCHANGED <<ctl, streaming>>

\* What a chunk that ends at e brings when n letters have been said.
Delivered(g, n, e) == Part(g, IF g \in Cumulative THEN 0 ELSE n, e)

\* handleStreamUpdate, for the next chunk of the answer.
Chunk(c) ==
    LET n == Len(said[c.g])
        rest == {e \in Ends[c.g] : n < e}
    IN  /\ c.at = "open" /\ Current(c) /\ ~Stale(c.g, gen) /\ pend.g = c.g
        /\ \E e \in rest :
              /\ \A d \in rest : e <= d
              /\ said' = [said EXCEPT ![c.g] = Part(c.g, 0, e)]
              /\ pend' = [pend EXCEPT !.txt = Merge(@, Delivered(c.g, n, e))]
        /\ timer' = TRUE
        /\ UNCHANGED <<msgs, queue, gen, calls, ctl, requesting, streaming, busy, saving, clobbered>>

\* [DONE], an error event, an unreadable message or a closing with a status
\* other than 200: the source is closed.
StreamEnds(c, k) ==
    /\ c.at = "open" /\ Current(c)
    /\ Finish(c, ForGen(k, c.g))
    /\ ctl' = 0 /\ streaming' = FALSE

\* The connection closes with status 200 and no [DONE]: no listener reacts.
QuietClose(c) ==
    /\ c.at = "open"
    /\ calls' = calls \ {c}
    /\ UNCHANGED <<msgs, queue, gen, busy, stream, saving, history>>

\* sendChatCompletion resolves; an aborted call may still resolve.
ReplyReturns(c) ==
    /\ c.at = "json"
    /\ LET reply == Part(c.g, 0, MaxLetters)
       IN  /\ calls' = calls \ {c}
           /\ IF Stale(c.g, gen)
              THEN UNCHANGED <<queue, latest, saveTimer, requesting, said>>
              ELSE /\ said' = [said EXCEPT ![c.g] = reply]
                   /\ Enqueue(<<WithText("reply", c.g, reply)>>)
                   /\ requesting' = FALSE
    /\ UNCHANGED <<msgs, gen, pend, timer, ctl, streaming, busy, stored, clobbered>>

ReplyFails(c) ==
    /\ c.at = "json"
    /\ Finish(c, ForGen("error", c.g))
    /\ UNCHANGED <<ctl, streaming>>
--------------------------------------------------------------------------------
(* The user. *)

\* sendChat: a new generation; what is pending and the call before it are dropped.
SendChat(stream_) ==
    LET g == gen + 1
    IN  /\ gen < MaxGen /\ gen' = g
        /\ pend' = NoChunks(g) /\ timer' = FALSE
        /\ ctl' = IF stream_ THEN g ELSE 0
        /\ calls' = {c \in calls : c.at # "open"}
                      \cup {[g |-> g, at |-> IF stream_ THEN "headers" ELSE "json"]}
        /\ requesting' = TRUE /\ streaming' = FALSE /\ busy' = TRUE
        /\ UNCHANGED said

\* handleSendMessage, with the conversation as rendered.
Send(stream_) ==
    /\ ~busy /\ Len(msgs) + 2 <= MaxMessages
    /\ SendChat(stream_)
    /\ Show(<<SetTo(msgs \o <<UserMessage(gen + 1), Loading(gen + 1)>>)>>, gen + 1)
    /\ UNCHANGED clobbered

\* createRegeneratedMessages
Regenerate(i, stream_) ==
    LET kept == IF msgs[i].from = "user" THEN i ELSE i - 1
    IN  /\ ~busy
        /\ SendChat(stream_)
        /\ Show(<<SetTo(SubSeq(msgs, 1, kept) \o <<Loading(gen + 1)>>)>>, gen + 1)
        /\ UNCHANGED clobbered

\* applyEdit with "save and submit": the editor stays open during a generation.
EditSubmit(i, stream_) ==
    /\ msgs[i].from = "user"
    /\ SendChat(stream_)
    /\ Show(<<SetTo(SubSeq(msgs, 1, i) \o <<Loading(gen + 1)>>)>>, gen + 1)
    /\ UNCHANGED clobbered

\* applyEdit with "save": the conversation as rendered, with the edit, replaces all.
EditSave(i) ==
    /\ msgs[i].from = "user" /\ queue # <<>>
    /\ Show(<<SetTo(msgs)>>, gen)
    /\ clobbered' = TRUE
    /\ busy' = (requesting \/ streaming)
    /\ UNCHANGED <<gen, calls, stream, said>>

\* handleDeleteMessage
Delete(i) ==
    /\ ~busy
    /\ Show(<<[kind |-> "remove", m |-> msgs[i]]>>, gen)
    /\ UNCHANGED <<gen, calls, stream, busy, history>>

\* handleClearMessages
Clear ==
    /\ ~busy /\ msgs # <<>>
    /\ Show(<<SetTo(<<>>)>>, gen)
    /\ UNCHANGED <<gen, calls, stream, busy, history>>

Stop_KeepsPending ==
    LET g == gen + 1
    IN  /\ busy /\ gen < MaxGen /\ gen' = g
        /\ ctl' = 0 /\ streaming' = FALSE /\ requesting' = FALSE /\ busy' = FALSE
        /\ calls' = {c \in calls : c.at # "open"}
        /\ Show(<<ForGen("stop", g)>>, g)
        /\ UNCHANGED <<pend, timer, history>>

\* stopGeneration: the flush is queued before the generation moves on, so only an
\* eager run of it is shown.
Stop ==
    LET g == gen + 1
        stop == ForGen("stop", g)
    IN  /\ busy /\ gen < MaxGen
        /\ gen' = g /\ pend' = NoChunks(g) /\ timer' = FALSE
        /\ ctl' = 0 /\ streaming' = FALSE /\ requesting' = FALSE /\ busy' = FALSE
        /\ calls' = {c \in calls : c.at # "open"}
        /\ \/ Show(Flush(gen) \o <<stop>>, g)
           \/ queue = <<>> /\ Flush(gen) # <<>>
              /\ Show(<<SetTo(RunAll(Flush(gen), msgs, gen)), stop>>, g)
        /\ UNCHANGED history
--------------------------------------------------------------------------------
(* Storage and page loads. *)

\* saveMessages; a write that the browser refuses is only logged.  What it trims a
\* load would trim as well.
SaveTimer ==
    /\ saveTimer
    /\ stored' \in {latest, stored} /\ saveTimer' = FALSE
    /\ UNCHANGED <<msgs, queue, gen, calls, busy, latest, stream, history>>

Loaded_NormalOnly(ms) ==
    [i \in DOMAIN ms |->
        IF IsPending(ms[i]) /\ ms[i].txt # <<>> THEN Completed(ms[i]) ELSE ms[i]]

\* What a load may leave of a text: collapseRepeatedSectionSnapshots drops a
\* beginning, truncateText an end, neither all of it.
Excerpts(t) ==
    IF t = <<>> THEN {<<>>} ELSE {SubSeq(t, a, b) : a, b \in DOMAIN t} \ {<<>>}

\* ... of a message, and of a conversation: trimMessages, trimMessagesByContentSize
\* and, for all of it, readStoredMessagesValue drop the oldest messages.
Clipped(m)   == {[m EXCEPT !.txt = t, !.cut = @ \/ t # m.txt] : t \in Excerpts(m.txt)}
Endings(ms)  == {SubSeq(ms, k, Len(ms)) : k \in 1 .. Len(ms) + 1}
Shortened(ms) ==
    {ns \in [DOMAIN ms -> UNION {Clipped(ms[i]) : i \in DOMAIN ms}] :
        \A i \in DOMAIN ms : ns[i] \in Clipped(ms[i])}

\* The status that normalizeStoredMessageForLoad leaves, then sanitizeMessagesOnLoad
\* for the last message still pending.
Loaded(ms) ==
    LET normal == [i \in DOMAIN ms |->
            IF IsPending(ms[i]) /\ ms[i].txt # <<>> THEN Completed(ms[i]) ELSE ms[i]]
        stuck == {i \in DOMAIN ms : IsPending(normal[i])}
    IN  [i \in DOMAIN ms |->
            IF i \in stuck /\ \A j \in stuck : j <= i THEN Failed(normal[i]) ELSE normal[i]]

\* The page goes, by navigation (the unmount effect saves what is due) or by a
\* reload or crash, and is opened again; what the load changed is written back.
Reopen(unmounted) ==
    LET kept == IF unmounted /\ saveTimer THEN latest ELSE stored
    IN  /\ gen < MaxGen /\ gen' = gen + 1
        /\ \E rest \in Endings(kept) : \E short \in Shortened(rest) : msgs' = Loaded(short)
        /\ latest' = msgs' /\ stored' = msgs' /\ saveTimer' = FALSE
        /\ queue' = <<>> /\ pend' = NoChunks(gen + 1) /\ timer' = FALSE
        /\ calls' = {} /\ ctl' = 0
        /\ requesting' = FALSE /\ streaming' = FALSE /\ busy' = FALSE
        /\ UNCHANGED history
--------------------------------------------------------------------------------
Network ==
    \E c \in calls :
        \/ HeadersReady(c) \/ HeadersFail(c) \/ ReplyFails(c) \/ QuietClose(c)
        \/ Chunk(c) \/ ReplyReturns(c)
        \/ \E k \in {"complete", "error"} : StreamEnds(c, k)

User ==
    \/ \E i \in DOMAIN msgs : EditSave(i) \/ Delete(i)
    \/ \E s \in BOOLEAN :
          Send(s) \/ \E i \in DOMAIN msgs : Regenerate(i, s) \/ EditSubmit(i, s)
    \/ Clear \/ Stop
    \/ \E u \in BOOLEAN : Reopen(u)

CNext == Network \/ User \/ FlushTimer \/ Render \/ SaveTimer

CSpec == CInit /\ [][CNext]_cvars
--------------------------------------------------------------------------------
(* Properties. *)

Texts    == Seq(Gens \X (Nat \ {0}))
Statuses == {"none", "loading", "streaming", "complete", "error"}
Messages == [from : {"user", "assistant"}, g : Gens, st : Statuses, txt : Texts, cut : BOOLEAN]
Updaters == [kind : {"set"}, ms : Seq(Messages)]
              \cup [kind : {"chunk", "complete", "error", "reply"}, g : Gens, txt : Texts]

\* Types; what is pending, and the stream source, belong to the current generation.
CTypeOK ==
    /\ gen \in 0 .. MaxGen /\ ctl \in {0, gen}
    /\ pend \in [g : {gen}, txt : Texts] /\ timer \in BOOLEAN /\ (timer => pend.txt # <<>>)
    /\ msgs \in Seq(Messages) /\ latest \in Seq(Messages) /\ stored \in Seq(Messages)
    /\ queue \in Seq(Updaters)
    /\ calls \subseteq [g : Gens, at : {"headers", "open", "json"}]
    /\ {requesting, streaming, busy, saveTimer, clobbered} \subseteq BOOLEAN
    /\ said \in [Gens -> Texts]

\* The letters of t are of request g, numbered above a and up to b, in order.
InOrder(t, g, a, b) ==
    \A i \in DOMAIN t :
        /\ t[i][1] = g /\ a < t[i][2] /\ t[i][2] <= b
        /\ \A j \in DOMAIN t : i < j => t[i][2] < t[j][2]

\* A run of chunks of answer g is followed by one that begins with the same text
\* ("1", then "12"): startsWith takes the second for a repetition of the first.
Cuts(g)     == {0} \cup Ends[g]
Stutters(g) ==
    \E a, b, e \in Cuts(g) : a < b /\ b < e /\ Begins(Part(g, a, b), Part(g, b, e))
Exact(g)    == g \in Cumulative \/ ~Stutters(g)

\* Message m is its own request's: nothing of another, nothing twice, no
\* reordering; without a stutter no hole, and a beginning of what was said unless
\* a page load cut it.
OwnText(m, heard) ==
    LET n == Len(heard[m.g])
    IN  m.from = "assistant" =>
            /\ InOrder(m.txt, m.g, 0, n)
            /\ Exact(m.g) => \E a \in 0 .. n : \E b \in a .. n :
                                m.txt = Part(m.g, a, b) /\ (m.cut \/ a = 0)

\* However requests, stops, edits, reloads and renders interleave, an answer on
\* screen holds only what its own request said, in the order it was said, and no
\* letter twice (the generation guards of use-chat-handler.ts).  It has no hole
\* unless the upstream stutters, and begins at the beginning unless it was loaded.
ShowsOwnText == ~clobbered => \A i \in DOMAIN msgs : OwnText(msgs[i], said)

\* When [DONE] arrives, the text on screen and the updaters then queued hold all
\* that a stream without stutter said, however the flush timer and the renders
\* fell.  A Stop or an edit before the next render can still make them stale.
WholeWhenDone ==
    [][\A c \in calls :
         StreamEnds(c, "complete") /\ ~clobbered /\ Exact(c.g)
           => Last(RunAll(queue', msgs, gen)).txt = said[c.g]]_cvars

\* The same of every stream: false, a delta that begins with the text before it
\* takes its place.
NothingDropped ==
    [][\A c \in calls :
         StreamEnds(c, "complete") /\ ~clobbered
           => Last(RunAll(queue', msgs, gen)).txt = said[c.g]]_cvars

\* When nothing is under way no answer is left spinning, also after a reload.
NothingStuck ==
    ~clobbered /\ ~busy /\ queue = <<>> /\ ~requesting /\ ~streaming =>
        \A i \in DOMAIN msgs : ~IsPending(msgs[i])
--------------------------------------------------------------------------------
(* The inductive invariant. *)

\* The requests: what was said comes in order, each has one call, and the flags
\* follow the call of the current generation.
CallsInv ==
    /\ \A g \in Gens : said[g] = Part(g, 0, Len(said[g])) /\ (g > gen => said[g] = <<>>)
    /\ \A c \in calls : c.g <= gen /\ \A d \in calls : c.g = d.g => c = d
    /\ \A c \in calls : c.g = gen =>
          /\ requesting
          /\ streaming <=> c.at = "open"
          /\ c.at = "json" => ctl = 0 /\ said[gen] = <<>> /\ pend.txt = <<>>
    /\ IF requesting THEN gen \in Gens ELSE ~streaming /\ pend.txt = <<>>
    /\ ~busy => ~requesting /\ queue = <<>>

\* A conversation in which every answer is its own, and all but the last have ended.
Sound(ms, heard) ==
    \A i \in DOMAIN ms : OwnText(ms[i], heard) /\ (IsPending(ms[i]) => i = Len(ms))

\* The conversation once the queue has run, in this generation or a later one.
Now   == RunAll(queue, msgs, gen)
Later == RunAll(queue, msgs, gen + 1)

\* The last answer continues with what is pending: it holds the letters up to k, and
\* what is pending those after k; all of them unless the upstream stutters.
Continues(m) ==
    LET n == Len(said[gen])
    IN  /\ m.from = "assistant" /\ m.g = gen /\ m.st \in {"loading", "streaming"}
        /\ n \in Cuts(gen)
        /\ \E k \in Cuts(gen) :
              /\ k <= n
              /\ IF Exact(gen)
                 THEN /\ m.txt = Part(gen, 0, k)
                      /\ pend.txt = IF k = n THEN <<>> ELSE Delivered(gen, k, n)
                 ELSE InOrder(m.txt, gen, 0, k) /\ InOrder(pend.txt, gen, k, n)

TextInv ==
    /\ \A ms \in {msgs, latest, stored, Now, Later} : Sound(ms, said)
    /\ IF requesting THEN Now # <<>> /\ Continues(Last(Now))
       ELSE \A i \in DOMAIN Now : ~IsPending(Now[i])

ChatInv ==
    /\ CTypeOK /\ CallsInv
    /\ Now \in Seq(Messages) /\ Later \in Seq(Messages)
    /\ ~clobbered => TextInv
================================================================================
