------------------------------ MODULE TakGovLink ------------------------------
(***************************************************************************)
(* The one tak.gov account the server pulls plugins as.  The identity      *)
(* provider rotates the refresh token on every use, so what the row holds  *)
(* is worth something only while it is the last token handed out.  Jobs    *)
(* read the row inside the refresh lock; the plugins page has read it      *)
(* before it waits for that lock and keeps what it read (the session's     *)
(* identity map, with expire_on_commit off).  Operators link, poll and     *)
(* unlink from other requests without taking the lock.                     *)
(***************************************************************************)
EXTENDS Integers, FiniteSets

CONSTANTS
    Job,        \* readers that load the row once they hold the lock
    Page,       \* readers that loaded it before
    Click,      \* requests of the operator's "I have entered the code" button
    MaxTokens,  \* refresh tokens the provider issues
    MaxMishaps  \* crashes, lost answers, provider failures and lost vault keys

VARIABLES
    row,        \* the committed TakGovLink row
    live,       \* the provider: the refresh tokens it would still honour
    issued,     \* the provider: refresh tokens handed out so far
    codeState,  \* the provider: the device code it issued last
    lock,       \* _REFRESH_LOCK: who holds it, or None
    task,       \* what each reader is doing, the row it read, and the answer it has
    click,      \* each poll of the device code: the row it read, the answer it has
    excuse,     \* what has happened that may cost the link
    mishaps

linkVars == <<row, live, issued, codeState, lock, task, click, excuse, mishaps>>

Reader == Job \cup Page
Token == 1 .. MaxTokens
None == "none"
\* A token column that is empty, or sealed under a key that is gone.
NoToken == 0

\* The console never shows the fields a Row leaves out; `fresh` is whether the
\* cached access token has more than _EXPIRY_MARGIN to run.
Row == [status : {"unlinked", "pending", "linked", "broken"}, code : BOOLEAN,
        refresh : Token \cup {NoToken}, previous : Token \cup {NoToken}, fresh : BOOLEAN]

Unlinked == [status |-> "unlinked", code |-> FALSE, refresh |-> NoToken,
             previous |-> NoToken, fresh |-> FALSE]

Idle == [stage |-> "idle", copy |-> Unlinked, answer |-> NoToken]

Init ==
    /\ row = Unlinked
    /\ live = {} /\ issued = 0 /\ codeState = "none"
    /\ lock = None
    /\ task = [r \in Reader |-> Idle]
    /\ click = [c \in Click |-> Idle]
    /\ excuse = {} /\ mishaps = 0

Mishap(why) ==
    /\ mishaps < MaxMishaps
    /\ mishaps' = mishaps + 1
    /\ excuse' = excuse \cup {why}

\* _clear_flow
ClearFlow(l) == [l EXCEPT !.code = FALSE]

\* _store_tokens, on the row the caller holds.
StoreTokens(held, t) ==
    [held EXCEPT !.previous = held.refresh, !.refresh = t, !.fresh = TRUE]

\* What a commit leaves in the table: the columns the caller changed of the row it
\* held, and of every other column what is there by now.
Commit(held, changed) ==
    [f \in DOMAIN row |-> IF changed[f] # held[f] THEN changed[f] ELSE row[f]]

-----------------------------------------------------------------------------
(* Linking.                                                                *)

\* start: the provider answers with a new device code.
Start ==
    /\ row.status \in {"unlinked", "broken"}
    /\ row' = [row EXCEPT !.status = "pending", !.code = TRUE]
    /\ codeState' = "open"
    /\ UNCHANGED <<live, issued, lock, task, click, excuse, mishaps>>

\* The operator enters the code at tak.gov.
Approve ==
    /\ codeState = "open"
    /\ codeState' = "approved"
    /\ UNCHANGED <<row, live, issued, lock, task, click, excuse, mishaps>>

Expired(l) == [ClearFlow(l) EXCEPT !.status = "unlinked"]

\* poll, up to the provider's answer.  A pending answer and a request to slow
\* down leave the row as it was; the second exchange of one code is refused.
PollAsk(c) ==
    /\ row.status = "pending" /\ row.code /\ click[c].stage = "idle"
    /\ \/ /\ codeState = "approved" /\ issued < MaxTokens
          /\ issued' = issued + 1
          /\ live' = live \cup {issued + 1}
          /\ codeState' = "spent"
          /\ click' = [click EXCEPT ![c] =
                         [stage |-> "answered", copy |-> row, answer |-> issued + 1]]
          /\ row' = row
       \/ /\ codeState = "spent"
          /\ click' = [click EXCEPT ![c] =
                         [stage |-> "answered", copy |-> row, answer |-> NoToken]]
          /\ UNCHANGED <<row, live, issued, codeState>>
       \/ /\ codeState # "spent"
          /\ row' = Expired(row)
          /\ codeState' = "none"
          /\ UNCHANGED <<click, live, issued>>
    /\ UNCHANGED <<lock, task, excuse, mishaps>>

\* poll, from the answer to the commit: the status it read was pending, so it
\* writes its own whatever the table says by now.
PollSave(c) ==
    LET held == click[c].copy
        changed == IF click[c].answer = NoToken THEN Expired(held)
                   ELSE [ClearFlow(StoreTokens(held, click[c].answer))
                            EXCEPT !.status = "linked"]
    IN  /\ click[c].stage = "answered"
        /\ row' = Commit(held, changed)
        /\ click' = [click EXCEPT ![c] = Idle]
        /\ UNCHANGED <<live, issued, codeState, lock, task, excuse, mishaps>>

\* unlink
Unlink ==
    /\ row.status \in {"pending", "linked"}
    /\ row' = Unlinked
    /\ UNCHANGED <<live, issued, codeState, lock, task, click, excuse, mishaps>>

-----------------------------------------------------------------------------
(* Using the credential.                                                   *)

\* _tpc_panel: the page reads the row to draw the tab, and goes on holding it.
Show(p) ==
    /\ p \in Page /\ task[p].stage = "idle" /\ row.status = "linked"
    /\ task' = [task EXCEPT ![p] = [Idle EXCEPT !.stage = "shown", !.copy = row]]
    /\ UNCHANGED <<row, live, issued, codeState, lock, click, excuse, mishaps>>

\* The row get(session) gives a reader inside the lock.
ReadRow(r) == IF r \in Page THEN task[r].copy ELSE row

MayAsk(r) == task[r].stage = IF r \in Page THEN "shown" ELSE "idle"

\* Mutant: no lock around the refresh.
NoLock(r) == TRUE

TakeLock(r) == lock = None

\* access_token, up to the request: nothing to do without a link, the cached
\* token while it lasts, a broken link when the stored one cannot be read.
Ask(r) ==
    LET held == ReadRow(r) IN
    /\ MayAsk(r) /\ TakeLock(r) /\ held.status = "linked"
    /\ \/ /\ held.fresh
          /\ task' = [task EXCEPT ![r] = [Idle EXCEPT !.stage = "using"]]
          /\ UNCHANGED <<lock, row>>
       \/ /\ ~held.fresh /\ held.refresh = NoToken
          /\ row' = [row EXCEPT !.status = "broken"]
          /\ task' = [task EXCEPT ![r] = Idle]
          /\ UNCHANGED lock
       \/ /\ ~held.fresh /\ held.refresh # NoToken
          /\ lock' = r
          /\ task' = [task EXCEPT ![r] = [Idle EXCEPT !.stage = "asking", !.copy = held]]
          /\ row' = row
    /\ UNCHANGED <<live, issued, codeState, click, excuse, mishaps>>

\* The token a reader presents: the stored one, and after a refusal the one
\* before it, if there is one.
Presents(r) == IF task[r].stage = "asking" THEN task[r].copy.refresh
               ELSE task[r].copy.previous

\* The provider rotates a token it honours; the answer arrives.
Rotated(r) ==
    /\ task[r].stage \in {"asking", "retrying"} /\ Presents(r) \in live
    /\ issued < MaxTokens
    /\ issued' = issued + 1
    /\ live' = (live \ {Presents(r)}) \cup {issued + 1}
    /\ task' = [task EXCEPT ![r].stage = "answered", ![r].answer = issued + 1]
    /\ UNCHANGED <<row, codeState, lock, click, excuse, mishaps>>

\* It rotates, and the answer is lost: the transport error is no TakGovError, so
\* it leaves access_token and the request rolls back.
AnswerLost(r) ==
    /\ task[r].stage \in {"asking", "retrying"} /\ Presents(r) \in live
    /\ issued < MaxTokens
    /\ issued' = issued + 1
    /\ live' = (live \ {Presents(r)}) \cup {issued + 1}
    /\ task' = [task EXCEPT ![r] = Idle]
    /\ lock' = None
    /\ Mishap("answer lost")
    /\ UNCHANGED <<row, codeState, click>>

\* A refusal, in fact (the token is spent) or by accident (the provider answers
\* with a failure).  After the second one, or with nothing to fall back on, the
\* link is broken.
Refused(r) ==
    /\ task[r].stage \in {"asking", "retrying"}
    /\ \/ /\ Presents(r) \notin live
          /\ excuse' = IF r \in Page /\ task[r].copy.refresh # row.refresh
                       THEN excuse \cup {"old row"} ELSE excuse
          /\ UNCHANGED mishaps
       \/ Presents(r) \in live /\ Mishap("provider failed")
    /\ IF task[r].stage = "asking" /\ task[r].copy.previous # NoToken
       THEN /\ task' = [task EXCEPT ![r].stage = "retrying"]
            /\ UNCHANGED <<row, lock>>
       ELSE /\ row' = [row EXCEPT !.status = "broken"]
            /\ task' = [task EXCEPT ![r] = Idle]
            /\ lock' = None
    /\ UNCHANGED <<live, issued, codeState, click>>

\* The rotation is committed, the lock is free, and only then is the token used.
Save(r) ==
    /\ task[r].stage = "answered"
    /\ row' = Commit(task[r].copy, StoreTokens(task[r].copy, task[r].answer))
    /\ task' = [task EXCEPT ![r] = [Idle EXCEPT !.stage = "using"]]
    /\ lock' = None
    /\ UNCHANGED <<live, issued, codeState, click, excuse, mishaps>>

\* The catalog is fetched, or the build is downloaded.
Done(r) ==
    /\ task[r].stage = "using" \/ (task[r].stage = "shown" /\ task[r].copy.status # "linked")
    /\ task' = [task EXCEPT ![r] = Idle]
    /\ UNCHANGED <<row, live, issued, codeState, lock, click, excuse, mishaps>>

-----------------------------------------------------------------------------
(* The environment.                                                        *)

\* The cached access token runs into its margin.
Expire ==
    /\ row.fresh
    /\ row' = [row EXCEPT !.fresh = FALSE]
    /\ UNCHANGED <<live, issued, codeState, lock, task, click, excuse, mishaps>>

\* The server comes back with another vault key: nothing sealed before opens.
LoseKey ==
    /\ row.refresh # NoToken
    /\ row' = [row EXCEPT !.refresh = NoToken, !.previous = NoToken, !.fresh = FALSE]
    /\ Mishap("key lost")
    /\ lock' = None
    /\ task' = [r \in Reader |-> Idle]
    /\ click' = [c \in Click |-> Idle]
    /\ UNCHANGED <<live, issued, codeState>>

\* The server stops: what was received and not committed is gone.
Crash ==
    /\ mishaps < MaxMishaps
    /\ mishaps' = mishaps + 1
    /\ excuse' = IF \/ \E r \in Reader : task[r].stage = "answered"
                    \/ \E c \in Click : click[c].answer # NoToken
                 THEN excuse \cup {"answer lost"} ELSE excuse
    /\ lock' = None
    /\ task' = [r \in Reader |-> Idle]
    /\ click' = [c \in Click |-> Idle]
    /\ UNCHANGED <<row, live, issued, codeState>>

Next ==
    \/ Start \/ Approve \/ Unlink \/ Expire \/ LoseKey \/ Crash
    \/ \E c \in Click : PollAsk(c) \/ PollSave(c)
    \/ \E p \in Page : Show(p)
    \/ \E r \in Reader : Ask(r) \/ Rotated(r) \/ AnswerLost(r) \/ Refused(r) \/ Save(r) \/ Done(r)

-----------------------------------------------------------------------------
(* Properties.                                                             *)

\* The lock does its work among the readers that load the row inside it: a link
\* is broken only after a rotation's answer was lost, the provider failed, the
\* vault key went, or a page judged by the row it had loaded before another
\* reader's rotation (tak_gov_link.access_token, _REFRESH_LOCK).
BrokenHasACause == row.status = "broken" => excuse # {}

=============================================================================
