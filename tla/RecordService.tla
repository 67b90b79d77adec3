---------------------------- MODULE RecordService ----------------------------
(***************************************************************************)
(* What the service promises those who list and change the records of one  *)
(* zone, without a cache, pages, generations or calls: a list shows each   *)
(* record set as it was at some moment, but not before the changes that    *)
(* had been reported when the list was asked for, and leaves one out only  *)
(* when another has changed since it was read; an update or a deletion is  *)
(* carried out at most once, and not over a change that was reported after *)
(* the content it names; what is reported has happened.  Anyone may change *)
(* the records at the provider too.  A content is the number of changes so *)
(* far, creation and removal included.                                     *)
(***************************************************************************)
EXTENDS Naturals

CONSTANTS Readers, Writers, Records, None

VARIABLES content,   \* of each record set at the provider
          reported,  \* of each record set, the last change reported to who asked for it
          asked,     \* whether a list of each reader is under way
          promise,   \* what was reported when it was asked for
          shows,     \* the contents it was answered with, or None
          task       \* of each writer, None or [on, expects, change]

vars == <<content, reported, promise, asked, shows, task>>

Untouched == [c \in Records |-> 0]

Init ==
    /\ content = Untouched /\ reported = Untouched
    /\ asked = [r \in Readers |-> FALSE]
    /\ promise = [r \in Readers |-> Untouched]
    /\ shows = [r \in Readers |-> None]
    /\ task = [w \in Writers |-> None]

Change(c) == content' = [content EXCEPT ![c] = @ + 1]

\* Someone changes a record set past this service, or a request that nobody
\* waits for any more is carried out.
ChangeByOthers(c) == Change(c) /\ UNCHANGED <<reported, promise, asked, shows, task>>

----------------------------------------------------------------------------
(* Lists. *)

Ask(r) ==
    /\ promise' = [promise EXCEPT ![r] = reported]
    /\ ~asked[r] /\ shows[r] = None
    /\ asked' = [asked EXCEPT ![r] = TRUE]
    /\ UNCHANGED <<content, reported, shows, task>>

\* The contents a list may show, each from the promise on, or None for one it leaves out:
\* only when another one it shows has been changed since it was read.
Showable(r) ==
    {seen \in [Records -> (UNION {0..content[c] : c \in Records}) \cup {None}] :
        \A c \in Records :
            IF seen[c] = None THEN \E d \in Records : seen[d] # None /\ seen[d] < content[d]
            ELSE promise[r][c] <= seen[c] /\ seen[c] <= content[c]}

\* The list is answered, or fails.
Answer(r) ==
    /\ UNCHANGED <<content, reported, promise>>
    /\ asked[r]
    /\ asked' = [asked EXCEPT ![r] = FALSE]
    /\ \E seen \in Showable(r) \cup {None} : shows' = [shows EXCEPT ![r] = seen]
    /\ UNCHANGED task

Leave(r) ==
    /\ promise' = [promise EXCEPT ![r] = Untouched]
    /\ ~asked[r]
    /\ shows' = [shows EXCEPT ![r] = None]
    /\ UNCHANGED <<content, reported, asked, task>>

----------------------------------------------------------------------------
(* Changes. *)

\* Who changes a record set names the content it has seen; a creation, none.
Submit(w) ==
    /\ UNCHANGED <<content, reported, promise>>
    /\ task[w] = None
    /\ \E c \in Records : \E seen \in 0..content[c] \cup {None} :
         task' = [task EXCEPT ![w] = [on |-> c, expects |-> seen, change |-> 0]]
    /\ UNCHANGED <<asked, shows>>

\* The change is made: not over what has been reported since.
CarryOut(w) ==
    /\ \E c \in Records :
         /\ Change(c)
         /\ task[w] # None /\ task[w].on = c /\ task[w].change = 0
         /\ task[w].expects # None => reported[c] <= task[w].expects
         /\ task' = [task EXCEPT ![w].change = content'[c]]
    /\ UNCHANGED <<reported, promise, asked, shows>>

\* Its end is reported, as a success or an error; it need not have been made.
Report(w) ==
    /\ UNCHANGED <<content, promise>>
    /\ task[w] # None
    /\ reported' = [reported EXCEPT ![task[w].on] = IF @ < task[w].change THEN task[w].change ELSE @]
    /\ task' = [task EXCEPT ![w] = None]
    /\ UNCHANGED <<asked, shows>>

Next ==
    \/ \E c \in Records : ChangeByOthers(c)
    \/ \E r \in Readers : Ask(r) \/ Answer(r) \/ Leave(r)
    \/ \E w \in Writers : Submit(w) \/ CarryOut(w) \/ Report(w)

Spec == Init /\ [][Next]_vars
=============================================================================
