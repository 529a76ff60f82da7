----------------------------- MODULE InsightsChat -----------------------------
(***************************************************************************)
(* The chat of the AI Insights page (app/admin/ai-insights, its panel, and *)
(* hooks/use-insights-chat.ts): a question appends itself and an empty     *)
(* answer to a conversation kept in the browser, and a stream of events    *)
(* fills the answer in.  Leaving the page ends neither the stream nor the  *)
(* conversation, but forgets that a stream is open; coming back, the       *)
(* operator may ask again while the older answer is still arriving.        *)
(***************************************************************************)
EXTENDS Naturals, Sequences

CONSTANTS
    Questions,       \* the questions asked, each once
    None,
    MaxStored,       \* MAX_STORED_MESSAGES, an even number
    MaxChatEvents    \* bound: clicks

ChatAssumption ==
    /\ None \notin Questions /\ MaxStored \in Nat /\ MaxStored % 2 = 0 /\ MaxChatEvents \in Nat

VARIABLES
    chat,          \* the session atom: messages, oldest first
    streams,       \* streams open: [question, mount, stage]
    chatStatus,    \* of the page as mounted
    chatError,
    abortRef,      \* the question whose stream Stop aborts, or None
    onPage,        \* is the page mounted?
    mount,         \* how often it was
    chatEvents

page == <<chatStatus, chatError, abortRef, onPage, mount>>
chatVars == <<chat, streams, page, chatEvents>>

-----------------------------------------------------------------------------
InsightsChatStatus == {"ready", "streaming", "error"}
\* An answer's text: whose it is, and whether all of it has come.
Text == [of : Questions, stage : {"part", "whole", "failed"}]
InsightsChatMessage == [role : {"user", "assistant"}, question : Questions, text : Text \cup {None}]

Ask(q) == <<[role |-> "user", question |-> q, text |-> None],
            [role |-> "assistant", question |-> q, text |-> None]>>

Quiet == UNCHANGED chatEvents
Event == chatEvents < MaxChatEvents /\ chatEvents' = chatEvents + 1

isLoading == chatStatus = "streaming"
Fresh == {q \in Questions : /\ \A i \in DOMAIN chat : chat[i].question # q
                            /\ \A s \in streams : s.question # q}

\* trimSession, when the stored conversation is read.
trimSession(messages) ==
    IF Len(messages) <= MaxStored THEN messages
    ELSE SubSeq(messages, Len(messages) - MaxStored + 1, Len(messages))

-----------------------------------------------------------------------------
\* The text area, or a suggested prompt of an empty conversation.
sendMessage(q) ==
    /\ onPage /\ ~isLoading /\ q \in Fresh
    /\ chat' = chat \o Ask(q)
    /\ streams' = streams \cup {[question |-> q, mount |-> mount, stage |-> "open"]}
    /\ abortRef' = q /\ chatStatus' = "streaming" /\ chatError' = FALSE
    /\ Event /\ UNCHANGED <<onPage, mount>>

\* Mutant: the text goes to the last message.
patchAssistant_Last(q, text) ==
    IF chat = <<>> THEN chat ELSE [chat EXCEPT ![Len(chat)].text = text]

patchAssistant(q, text) ==
    [i \in DOMAIN chat |-> IF chat[i].role = "assistant" /\ chat[i].question = q
                           THEN [chat[i] EXCEPT !.text = text] ELSE chat[i]]

\* Only the page that sent a question hears of its stream.
Hears(s) == onPage /\ s.mount = mount
Moves(s, stage) == streams' = (streams \ {s}) \cup {[s EXCEPT !.stage = stage]}

\* text-delta events, then done with the whole answer.
TextDelta(s) ==
    /\ s.stage = "open" /\ Moves(s, "text")
    /\ chat' = patchAssistant(s.question, [of |-> s.question, stage |-> "part"])
    /\ Quiet /\ UNCHANGED page
Done(s) ==
    /\ s.stage \in {"open", "text"} /\ Moves(s, "done")
    /\ chat' = patchAssistant(s.question, [of |-> s.question, stage |-> "whole"])
    /\ Quiet /\ UNCHANGED page
\* An error event: the page takes another question before the stream ends.
ErrorEvent(s) ==
    /\ s.stage \in {"open", "text"} /\ Moves(s, "done")
    /\ IF Hears(s) THEN chatStatus' = "error" /\ chatError' = TRUE
       ELSE UNCHANGED <<chatStatus, chatError>>
    /\ Quiet /\ UNCHANGED <<chat, abortRef, onPage, mount>>
\* The stream ends: ready, whatever else is streaming by then.
StreamEnds(s) ==
    /\ s.stage = "done" /\ streams' = streams \ {s}
    /\ IF Hears(s) THEN chatStatus' = "ready" /\ abortRef' = None
       ELSE UNCHANGED <<chatStatus, abortRef>>
    /\ Quiet /\ UNCHANGED <<chat, chatError, onPage, mount>>
\* Refused, or the connection breaks: the text streamed stays; where none
\* was, "Request failed." takes its place, also that of an answer sent whole.
RequestFails(s) ==
    /\ streams' = streams \ {s}
    /\ \/ s.stage # "open" /\ UNCHANGED chat
       \/ s.stage # "text" /\ chat' = patchAssistant(s.question, [of |-> s.question, stage |-> "failed"])
    /\ IF Hears(s) THEN chatStatus' = "error" /\ chatError' = TRUE /\ abortRef' = None
       ELSE UNCHANGED <<chatStatus, chatError, abortRef>>
    /\ Quiet /\ UNCHANGED <<onPage, mount>>

-----------------------------------------------------------------------------
\* The stream that Stop ends: the one last sent, if its end was not heard.
Aborted == {s \in streams : Hears(s) /\ s.question = abortRef}
stop ==
    /\ onPage /\ isLoading
    /\ streams' = streams \ Aborted /\ abortRef' = None /\ chatStatus' = "ready"
    /\ Quiet /\ UNCHANGED <<chat, chatError, onPage, mount>>
clearConversation ==
    /\ onPage /\ chat # <<>>
    /\ streams' = streams \ Aborted /\ abortRef' = None /\ chatStatus' = "ready"
    /\ chat' = <<>> /\ chatError' = FALSE
    /\ Event /\ UNCHANGED <<onPage, mount>>

\* Another page of the application and back, or a reload of the browser,
\* which ends the streams and reads the conversation from its storage.
LeavePage ==
    /\ onPage /\ onPage' = FALSE
    /\ Event /\ UNCHANGED <<chat, streams, chatStatus, chatError, abortRef, mount>>
Mount == /\ onPage' = TRUE /\ mount' = mount + 1
         /\ chatStatus' = "ready" /\ chatError' = FALSE /\ abortRef' = None
OpenPage == ~onPage /\ Mount /\ Quiet /\ UNCHANGED <<chat, streams>>
ReloadBrowser ==
    /\ Mount /\ streams' = {} /\ chat' = trimSession(chat)
    /\ Event

-----------------------------------------------------------------------------
Init ==
    /\ chat = <<>> /\ streams = {} /\ chatStatus = "ready" /\ chatError = FALSE
    /\ abortRef = None /\ onPage = TRUE /\ mount = 0 /\ chatEvents = 0

Next ==
    \/ \E q \in Questions : sendMessage(q)
    \/ \E s \in streams : TextDelta(s) \/ Done(s) \/ ErrorEvent(s) \/ StreamEnds(s) \/ RequestFails(s)
    \/ stop \/ clearConversation \/ LeavePage \/ OpenPage \/ ReloadBrowser

Spec == Init /\ [][Next]_chatVars

-----------------------------------------------------------------------------
ChatTypeOK ==
    /\ chat \in Seq(InsightsChatMessage) /\ chatStatus \in InsightsChatStatus
    /\ abortRef \in Questions \cup {None}
    /\ \A s \in streams : s.question \in Questions /\ s.mount <= mount

(* Every answer stands under its question and holds only what was streamed  *)
(* for it, also when streams of several visits to the page run at once,     *)
(* when the conversation is cleared under them, and when a reload has cut   *)
(* it to what is stored.                                                    *)
AnswersUnderTheirQuestion ==
    \A i \in DOMAIN chat : chat[i].role = "assistant" =>
        /\ i > 1 /\ chat[i - 1].role = "user" /\ chat[i - 1].question = chat[i].question
        /\ chat[i].text # None => chat[i].text.of = chat[i].question

=============================================================================
