---------------------------- MODULE ComposerInput ----------------------------
(***************************************************************************)
(* The text box of a thread: the popups a "/" or an "@" opens, the         *)
(* workspace search behind an "@", and the commands and messages sent.     *)
(* Showing another thread mounts another box. A text is told by its kind:  *)
(* empty, plain words, a command (arg: its id, "any" while it may still    *)
(* become any) or a mention (arg: what is looked for).                     *)
(***************************************************************************)
EXTENDS Naturals, FiniteSets

CONSTANTS
  MaxSearches, \* bound on the searches asked for
  MaxBoxCalls  \* bound on the commands and messages in flight together

VARIABLES
  boxEnabled, \* actionsEnabled
  boxText,    \* composerText; open: the caret is in the token and its popup was not dismissed
  boxSearch,  \* fileSearchState: matches is the query they were found for
  boxTimer,   \* is the search to be asked for when the 120 ms are over?
  boxId,      \* fileSearchRequestIdRef
  boxAsked,   \* searches in flight
  boxCalls,   \* commands and messages in flight
  boxSheet    \* the sheet open over the box

boxVars == <<boxEnabled, boxText, boxSearch, boxTimer, boxId, boxAsked, boxCalls, boxSheet>>

\* One query with a backslash in it, and the one with a slash in its place
Queries == {"", "plain", "backslash", "slash"}
NoMatches == "no matches"

\* normalizeWorkspaceSearchQuery: the bridge searches for a path with slashes,
\* and answers with that.
Normalised(query) == IF query = "backslash" THEN "slash" ELSE query

\* What a command does with its text: awaits the bridge and then clears it (new
\* and clear as compact does), opens a sheet when it has no argument, or acts
\* at once.
Commands == {"compact", "review", "rename", "resume", "mention", "model"}
SupportsInlineArgs == {"review", "rename"}

Empty == [kind |-> "empty", arg |-> "", open |-> FALSE]
Words == [kind |-> "words", arg |-> "", open |-> FALSE]
Mention(query) == [kind |-> "mention", arg |-> query, open |-> TRUE]
Command(id, open) == [kind |-> "command", arg |-> id, open |-> open]
\* "/review ..." with an argument after it
Instructed(id) == [kind |-> "instructed", arg |-> id, open |-> FALSE]

Typed == {Empty, Words} \cup {Mention(q) : q \in Queries}
           \cup {Command(id, TRUE) : id \in Commands \cup {"any"}}
           \cup {Instructed(id) : id \in SupportsInlineArgs}

NoSearch == [status |-> "idle", query |-> "", matches |-> NoMatches]

BoxTypeOK ==
  /\ boxEnabled \in BOOLEAN
  /\ boxText \in Typed \cup {[t EXCEPT !.open = FALSE] : t \in Typed}
  /\ boxSearch \in [status : {"idle", "loading", "ready", "error"}, query : Queries,
                    matches : Queries \cup {NoMatches}]
  /\ boxTimer \in BOOLEAN /\ boxId \in 0 .. MaxSearches
  /\ boxAsked \subseteq [id : 1 .. MaxSearches, query : Queries]
  /\ boxCalls \subseteq {"send", "command", "reviewSheet", "renameSheet"}
  /\ boxSheet \in {"none", "review", "rename", "settings"}

BoxInit ==
  /\ boxEnabled = TRUE /\ boxText = Empty /\ boxSearch = NoSearch
  /\ boxTimer = FALSE /\ boxId = 0 /\ boxAsked = {} /\ boxCalls = {} /\ boxSheet = "none"

-----------------------------------------------------------------------------
(* The search effect: it runs again when the popup, the query or           *)
(* actionsEnabled changes, and the timer of its last run is cleared.       *)

Looking(text) == text.kind = "mention" /\ text.open

SearchEffect(enabled, text, search) ==
  IF Looking(text) = Looking(boxText) /\ (Looking(text) => text.arg = boxText.arg) /\ enabled = boxEnabled
  THEN boxSearch' = search /\ UNCHANGED <<boxTimer, boxId>>
  ELSE LET waits == Looking(text) /\ enabled /\ text.arg # ""
       IN  /\ boxTimer' = waits
           /\ waits => boxId < MaxSearches
           /\ boxId' = IF waits THEN boxId + 1 ELSE boxId
           /\ boxSearch' = CASE ~Looking(text) -> NoSearch
                             [] Looking(text) /\ ~enabled ->
                                  [NoSearch EXCEPT !.status = "error", !.query = text.arg]
                             [] Looking(text) /\ enabled /\ text.arg = "" ->
                                  [NoSearch EXCEPT !.status = "ready"]
                             [] OTHER -> search

Holds(text) == boxText' = text /\ SearchEffect(boxEnabled, text, boxSearch)

\* The 120 ms are over: matches of the same query stay while they are asked for again.
TimerFires ==
  /\ boxTimer /\ boxTimer' = FALSE
  /\ boxAsked' = boxAsked \cup {[id |-> boxId, query |-> boxText.arg]}
  /\ boxSearch' = [status |-> "loading", query |-> boxText.arg,
                   matches |-> IF boxSearch.query = boxText.arg THEN boxSearch.matches ELSE NoMatches]
  /\ UNCHANGED <<boxEnabled, boxText, boxId, boxCalls, boxSheet>>

\* Faulty: an answer that was overtaken is shown.
IsLastSearchAny(asked) == TRUE

IsLastSearch(asked) == asked.id = boxId

SearchEnds ==
  /\ \E asked \in boxAsked, found \in BOOLEAN :
       /\ boxAsked' = boxAsked \ {asked}
       /\ boxSearch' =
            CASE ~IsLastSearch(asked) -> boxSearch
              [] IsLastSearch(asked) /\ found ->
                   [status |-> "ready", query |-> Normalised(asked.query),
                    matches |-> Normalised(asked.query)]
              [] IsLastSearch(asked) /\ ~found ->
                   [status |-> "error", query |-> asked.query, matches |-> NoMatches]
  /\ UNCHANGED <<boxEnabled, boxText, boxTimer, boxId, boxCalls, boxSheet>>

-----------------------------------------------------------------------------
(* The user types, moves, and takes what a popup offers                    *)

onChange(text) ==
  /\ text # boxText /\ Holds(text)
  /\ UNCHANGED <<boxEnabled, boxAsked, boxCalls, boxSheet>>

\* Escape
DismissPopup ==
  /\ boxText.open /\ Holds([boxText EXCEPT !.open = FALSE])
  /\ UNCHANGED <<boxEnabled, boxAsked, boxCalls, boxSheet>>

\* A match is put in the place of the token, whose popup so closes.
insertWorkspaceMatch ==
  /\ Looking(boxText) /\ boxSearch.matches # NoMatches
  /\ Holds(Words)
  /\ UNCHANGED <<boxEnabled, boxAsked, boxCalls, boxSheet>>

autocompleteCommand(id) ==
  /\ boxText.kind = "command" /\ boxText.open /\ boxText.arg \in {"any", id}
  /\ Holds(Command(id, FALSE))
  /\ UNCHANGED <<boxEnabled, boxAsked, boxCalls, boxSheet>>

\* Another thread is shown, by a box of its own; what the old one has in flight
\* ends unheard.
Remounts ==
  /\ boxText' = Empty /\ boxSearch' = NoSearch /\ boxTimer' = FALSE /\ boxId' = 0
  /\ boxAsked' = {} /\ boxCalls' = {} /\ boxSheet' = "none"
  /\ UNCHANGED boxEnabled

EnabledChanges ==
  /\ boxEnabled' = ~boxEnabled
  /\ SearchEffect(boxEnabled', boxText, boxSearch)
  /\ UNCHANGED <<boxText, boxAsked, boxCalls, boxSheet>>

-----------------------------------------------------------------------------
(* Commands                                                                *)

commandActionPending == boxCalls \cap {"command", "reviewSheet", "renameSheet"} # {}

clearCommandDraft(text) == boxText' = text /\ SearchEffect(boxEnabled, text, NoSearch)

Awaits(call) ==
  /\ Cardinality(boxCalls) < MaxBoxCalls
  /\ boxCalls' = boxCalls \cup {call}
  /\ UNCHANGED <<boxText, boxSearch, boxTimer, boxId, boxSheet>>

Opens(sheet, text) == clearCommandDraft(text) /\ boxSheet' = sheet /\ UNCHANGED boxCalls

executeSupportedCommand(id, args) ==
  /\ ~commandActionPending
  /\ id \in {"compact", "review", "rename"} => boxEnabled
  /\ CASE id = "compact" \/ args -> Awaits("command")
       [] ~args /\ id \in {"review", "rename"} -> Opens(id, Empty)
       [] ~args /\ id = "resume" -> Opens(boxSheet, Empty)
       [] ~args /\ id = "mention" -> Holds(Mention("")) /\ UNCHANGED <<boxCalls, boxSheet>>
       [] ~args /\ id = "model" -> Opens("settings", Words) \/ Opens("settings", Empty)
  /\ UNCHANGED <<boxEnabled, boxAsked>>

\* Enter on the popup, or a click on what it offers
ExecutesOffered(id) ==
  /\ boxText.kind = "command" /\ boxText.open /\ boxText.arg \in {"any", id}
  /\ executeSupportedCommand(id, FALSE)

\* onSubmit: what is no command is sent as it stands; the send is awaited
\* without holding the box.
SubmitCommand ==
  /\ boxText.kind \in {"command", "instructed"} /\ boxText.arg # "any"
  /\ executeSupportedCommand(boxText.arg, boxText.kind = "instructed")

SubmitMessage ==
  /\ ~commandActionPending
  /\ boxText.kind \in {"words", "mention"} \/ boxText.arg = "any"
  /\ Awaits("send")
  /\ UNCHANGED <<boxEnabled, boxAsked>>

submitSlashReview ==
  /\ boxSheet = "review" /\ ~commandActionPending /\ boxEnabled
  /\ Awaits("reviewSheet") /\ UNCHANGED <<boxEnabled, boxAsked>>

submitRename ==
  /\ boxSheet = "rename" /\ ~commandActionPending /\ boxEnabled
  /\ Awaits("renameSheet") /\ UNCHANGED <<boxEnabled, boxAsked>>

\* A command that was refused leaves the box and its sheet as they are.
Completed(call) ==
  CASE call = "command" -> clearCommandDraft(Empty) /\ UNCHANGED boxSheet
    [] call = "send" -> /\ Holds(Empty)
                        /\ boxSheet' = IF boxSheet = "settings" THEN "none" ELSE boxSheet
    [] OTHER -> boxSheet' = "none" /\ UNCHANGED <<boxText, boxSearch, boxTimer, boxId>>

CallEnds(call) ==
  /\ call \in boxCalls /\ boxCalls' = boxCalls \ {call}
  /\ Completed(call) \/ UNCHANGED <<boxText, boxSearch, boxTimer, boxId, boxSheet>>
  /\ UNCHANGED <<boxEnabled, boxAsked>>

SheetCloses ==
  /\ boxSheet # "none" /\ boxSheet' = "none"
  /\ UNCHANGED <<boxEnabled, boxText, boxSearch, boxTimer, boxId, boxAsked, boxCalls>>

BoxNext ==
  \/ TimerFires \/ SearchEnds \/ DismissPopup \/ insertWorkspaceMatch \/ EnabledChanges \/ Remounts
  \/ SubmitCommand \/ SubmitMessage \/ submitSlashReview \/ submitRename \/ SheetCloses
  \/ \E text \in Typed : onChange(text)
  \/ \E id \in Commands : autocompleteCommand(id) \/ ExecutesOffered(id)
  \/ \E call \in boxCalls : CallEnds(call)

-----------------------------------------------------------------------------
\* Once the timer of a query has fired, 120 ms after it was typed, what the popup
\* shows is for that query, whatever answers of earlier queries come in between:
\* the query told is the one typed or the one the bridge made of it, and matches,
\* kept or new, are those found for it. While the timer runs the popup still has
\* what it had.
MatchesAnswerQuery ==
  Looking(boxText) /\ boxText.arg # "" /\ boxEnabled /\ ~boxTimer =>
    /\ boxSearch.query \in {boxText.arg, Normalised(boxText.arg)}
    /\ boxSearch.status \in {"loading", "ready", "error"}
    /\ boxSearch.matches \in {Normalised(boxText.arg), NoMatches}
    /\ boxSearch.status = "ready" => boxSearch.matches # NoMatches
=============================================================================
