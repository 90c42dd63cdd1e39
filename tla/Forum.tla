------------------------------- MODULE Forum -------------------------------
(***************************************************************************)
(* Posts, comments and votes of the forum (server/forum/posts.py,          *)
(* comments.py, votes.py, and their handlers in handler.py).               *)
(*                                                                         *)
(* Every thread works on one and the same SQLite connection                *)
(* (get_forum_db): all see each other's uncommitted statements, a commit   *)
(* writes what anybody has changed, and a rollback takes back what anybody *)
(* has changed since the last commit.  db is what the connection shows,    *)
(* disk what a restart finds.                                              *)
(*                                                                         *)
(* Titles, texts, signatures and scores derived from the counters are left *)
(* out; up and down votes are kept by the code as counters of their own    *)
(* that nothing reads back.                                                *)
(***************************************************************************)
EXTENDS Integers, FiniteSets

CONSTANTS
    Authors,      \* UUIDs of those who post, comment and vote
    Posts,        \* ids of posts: random, so no id is used twice
    Comments,     \* ids of comments
    Threads,      \* threads of the connections that send forum requests
    NoUser,       \* no author: the row does not exist
    NoVote,       \* no row in votes
    NoTarget,     \* parent of a comment that answers the post itself
    MaxRequests   \* bound on the requests of a behaviour

ASSUME ForumAssumption ==
    /\ IsFiniteSet(Authors) /\ IsFiniteSet(Comments)
    /\ NoUser \notin Authors
    /\ NoVote \notin Int
    /\ NoTarget \notin Posts \cup Comments
    /\ Posts \cap Comments = {}
    /\ MaxRequests \in Nat

VARIABLES
    db,           \* the tables, uncommitted statements included
    disk,         \* the tables at the last commit
    at,           \* where each thread is in its handler
    req,          \* the request it handles
    seen,         \* local variables of the handler: what it has read
    fresh,        \* users registered less than 24 hours ago
    asked,        \* number of requests so far
    \* What the properties need and no action reads:
    told,         \* the vote each user was last told to have
    early,        \* votes that were cast by a fresh user
    disturbed     \* counters that two handlers changed at a time, or one
                  \* that was cut short

forumVars == <<db, disk, at, req, seen, fresh, asked, told, early, disturbed>>

Targets == Posts \cup Comments
Values == {-1, 0, 1}
Ballots == Authors \X Targets
Counters == {"net"} \X Targets \cup {"count"} \X (Posts \cup {NoTarget})

Tables == [vote : [Ballots -> Values \cup {NoVote}],
           net : [Targets -> Int],
           author : [Targets -> Authors \cup {NoUser}],
           deleted : SUBSET Targets,
           place : [Comments -> Posts \cup {NoTarget}],
           parent : [Comments -> Comments \cup {NoTarget}],
           count : [Posts -> Nat]]

Requests ==
    [op : {"vote"}, user : Authors, target : Targets, value : Values]
    \cup [op : {"post"}, user : Authors, target : Posts]
    \cup [op : {"comment"}, user : Authors, target : Comments, on : Posts,
          parent : Comments \cup {NoTarget}]
    \cup [op : {"delete"}, user : Authors, target : Targets, admin : BOOLEAN]
    \cup [op : {"save"}, user : Authors]

NoRequest == [op |-> "none"]

Reading == [counted : BOOLEAN, old : Values \cup {NoVote}, number : Int]
Nothing == [counted |-> FALSE, old |-> NoVote, number |-> 0]

Steps == {"lookup", "record", "tally", "adjust", "publish", "check", "insert",
          "erase", "settle", "measure", "stats", "save", "commit"}

ForumTypeOK ==
    /\ db \in Tables /\ disk \in Tables
    /\ at \in [Threads -> {"idle"} \cup Steps]
    /\ req \in [Threads -> Requests \cup {NoRequest}]
    /\ seen \in [Threads -> Reading]
    /\ fresh \subseteq Authors
    /\ asked \in 0..MaxRequests
    /\ told \in [Ballots -> Values \cup {NoVote}]
    /\ early \subseteq Ballots
    /\ disturbed \subseteq Counters

ForumInit ==
    /\ db = [vote |-> [b \in Ballots |-> NoVote],
             net |-> [x \in Targets |-> 0],
             author |-> [x \in Targets |-> NoUser],
             deleted |-> {},
             place |-> [c \in Comments |-> NoTarget],
             parent |-> [c \in Comments |-> NoTarget],
             count |-> [p \in Posts |-> 0]]
    /\ disk = db
    /\ at = [t \in Threads |-> "idle"]
    /\ req = [t \in Threads |-> NoRequest]
    /\ seen = [t \in Threads |-> Nothing]
    /\ fresh \in SUBSET Authors
    /\ asked = 0
    /\ told = [b \in Ballots |-> NoVote]
    /\ early = {}
    /\ disturbed = {}

-----------------------------------------------------------------------------

Exists(x) == db.author[x] # NoUser

Shown(x) == Exists(x) /\ x \notin db.deleted

\* Rows that are counted for a post: COUNT(*) of its undeleted comments.
Answers(tables, p) ==
    {c \in Comments : /\ tables.author[c] # NoUser
                      /\ c \notin tables.deleted
                      /\ tables.place[c] = p}

\* The counter a request changes, if any.
Counter(r) ==
    CASE r.op = "vote" -> {<<"net", r.target>>}
      [] r.op = "comment" -> {<<"count", r.on>>}
      [] r.op = "delete" /\ r.target \in Comments ->
            {<<"count", db.place[r.target]>>}
      [] OTHER -> {}

Busy(t) == at[t] # "idle"

InWork == UNION {Counter(req[t]) : t \in {u \in Threads : Busy(u)}}

Goto(t, step) == at' = [at EXCEPT ![t] = step]

\* The handler is done, or gives up.
Return(t) ==
    /\ Goto(t, "idle")
    /\ seen' = [seen EXCEPT ![t] = Nothing]
    /\ req' = [req EXCEPT ![t] = NoRequest]

\* Requests that name a row name one that has been shown to somebody.
Sensible(r) ==
    CASE r.op \in {"vote", "delete"} -> Exists(r.target)
      [] r.op = "post" -> ~Exists(r.target) /\ disk.author[r.target] = NoUser
      [] r.op = "comment" ->
            /\ ~Exists(r.target)
            /\ Exists(r.on)
            /\ r.parent # NoTarget => Exists(r.parent)
            /\ \A t \in Threads : Busy(t) /\ req[t].op # "save" =>
                    req[t].target # r.target
      [] OTHER -> TRUE

FirstStep(r) ==
    CASE r.op = "vote" -> "lookup"
      [] r.op = "post" -> "publish"
      [] r.op \in {"comment", "delete"} -> "check"
      [] OTHER -> "save"

\* A thread starts to handle a request.
Begin(t, r) ==
    /\ ~Busy(t)
    /\ asked < MaxRequests
    /\ Sensible(r)
    /\ asked' = asked + 1
    /\ req' = [req EXCEPT ![t] = r]
    /\ Goto(t, FirstStep(r))
    /\ disturbed' = disturbed \cup (Counter(r) \cap InWork)
    /\ UNCHANGED <<db, disk, seen, fresh, told, early>>

\* 24 hours have passed since the user registered.
Age(u) ==
    /\ u \in fresh
    /\ fresh' = fresh \ {u}
    /\ UNCHANGED <<db, disk, at, req, seen, asked, told, early, disturbed>>

-----------------------------------------------------------------------------
(* cast_vote.                                                              *)

Ballot(t) == <<req[t].user, req[t].target>>

\* A second vote of the same value withdraws the first.
NewValue(t) == IF seen[t].old = req[t].value THEN 0 ELSE req[t].value

\* Mutant: the old vote is not rolled back.
DeltaKeepsOld(t) == NewValue(t)

Delta(t) ==
    NewValue(t) - (IF seen[t].old = NoVote THEN 0 ELSE seen[t].old)

\* is_new_user, and the SELECT of the old vote.  Withdrawing what was never
\* cast changes nothing.
VoteLookup(t) ==
    /\ at[t] = "lookup"
    /\ LET old == db.vote[Ballot(t)]
       IN  IF old = NoVote /\ req[t].value = 0
           THEN Return(t) /\ UNCHANGED disturbed
           ELSE /\ seen' = [seen EXCEPT ![t].old = old,
                                        ![t].counted = req[t].user \notin fresh]
                /\ Goto(t, "record")
                /\ disturbed' = IF Ballot(t) \in early /\ seen'[t].counted
                                THEN disturbed \cup Counter(req[t])
                                ELSE disturbed
                /\ UNCHANGED req
    /\ UNCHANGED <<db, disk, fresh, asked, told, early>>

\* UPDATE of the row, which a rollback may have removed, or INSERT.
VoteRecord(t) ==
    /\ at[t] = "record"
    /\ (seen[t].old = NoVote) => (db.vote[Ballot(t)] = NoVote)
    /\ db' = IF seen[t].old # NoVote /\ db.vote[Ballot(t)] = NoVote THEN db
             ELSE [db EXCEPT !.vote[Ballot(t)] = NewValue(t)]
    /\ early' = IF seen[t].counted THEN early ELSE early \cup {Ballot(t)}
    /\ Goto(t, "tally")
    /\ UNCHANGED <<disk, req, seen, fresh, asked, told, disturbed>>

\* The INSERT meets a row another thread has inserted since the SELECT: the
\* exception rolls back, and with it the statements of all other threads.
VoteRollsBack(t) ==
    /\ at[t] = "record"
    /\ seen[t].old = NoVote
    /\ db.vote[Ballot(t)] # NoVote
    /\ db' = disk
    /\ Return(t)
    /\ disturbed' = disturbed \cup InWork
    /\ UNCHANGED <<disk, fresh, asked, told, early>>

\* The counter of a post is read and written back; that of a comment is
\* changed in one statement.
VoteTally(t) ==
    /\ at[t] = "tally"
    /\ IF req[t].target \in Posts
       THEN /\ seen' = [seen EXCEPT ![t].number = db.net[req[t].target]]
            /\ Goto(t, IF Exists(req[t].target) THEN "adjust" ELSE "commit")
            /\ UNCHANGED db
       ELSE /\ db' = IF seen[t].counted /\ Exists(req[t].target)
                     THEN [db EXCEPT !.net[req[t].target] = @ + Delta(t)]
                     ELSE db
            /\ Goto(t, "commit")
            /\ UNCHANGED seen
    /\ UNCHANGED <<disk, req, fresh, asked, told, early, disturbed>>

VoteAdjust(t) ==
    /\ at[t] = "adjust"
    /\ db' = [db EXCEPT !.net[req[t].target] =
                 seen[t].number + (IF seen[t].counted THEN Delta(t) ELSE 0)]
    /\ Goto(t, "commit")
    /\ UNCHANGED <<disk, req, seen, fresh, asked, told, early, disturbed>>

-----------------------------------------------------------------------------
(* Posts and comments.                                                     *)

\* create_post: INSERT.
Publish(t) ==
    /\ at[t] = "publish"
    /\ db' = [db EXCEPT !.author[req[t].target] = req[t].user]
    /\ Goto(t, "commit")
    /\ UNCHANGED <<disk, req, seen, fresh, asked, told, early, disturbed>>

\* What create_comment, delete_post and delete_comment look at first: a
\* comment needs a post that is shown and, as parent, a comment on that post;
\* a row is deleted by its author or an administrator.
Permitted(r) ==
    IF r.op = "comment"
    THEN /\ Shown(r.on)
         /\ r.parent # NoTarget =>
                Exists(r.parent) /\ db.place[r.parent] = r.on
    ELSE /\ Exists(r.target)
         /\ r.target \in Posts => r.target \notin db.deleted
         /\ r.admin \/ db.author[r.target] = r.user

CheckRights(t) ==
    /\ at[t] = "check"
    /\ IF Permitted(req[t])
       THEN /\ Goto(t, IF req[t].op = "comment" THEN "insert" ELSE "erase")
            /\ UNCHANGED <<seen, req>>
       ELSE Return(t)
    /\ UNCHANGED <<db, disk, fresh, asked, told, early, disturbed>>

\* INSERT of a comment.  Its post must exist (foreign key); if a rollback has
\* taken it, the exception ends the handler.
Insert(t) ==
    /\ at[t] = "insert"
    /\ IF Exists(req[t].on)
       THEN /\ db' = [db EXCEPT !.author[req[t].target] = req[t].user,
                                !.place[req[t].target] = req[t].on,
                                !.parent[req[t].target] = req[t].parent]
            /\ Goto(t, "settle")
            /\ UNCHANGED <<seen, req>>
       ELSE Return(t) /\ UNCHANGED db
    /\ UNCHANGED <<disk, fresh, asked, told, early, disturbed>>

\* UPDATE that marks a row as deleted.
Erase(t) ==
    /\ at[t] = "erase"
    /\ db' = IF Exists(req[t].target)
             THEN [db EXCEPT !.deleted = @ \cup {req[t].target}] ELSE db
    /\ Goto(t, IF req[t].target \in Comments THEN "settle" ELSE "commit")
    /\ UNCHANGED <<disk, req, seen, fresh, asked, told, early, disturbed>>

\* The first commit of the handlers that update the statistics next.
Settle(t) ==
    /\ at[t] = "settle"
    /\ disk' = db
    /\ Goto(t, "measure")
    /\ UNCHANGED <<db, req, seen, fresh, asked, told, early, disturbed>>

PostOf(t) ==
    IF req[t].op = "comment" THEN req[t].on ELSE db.place[req[t].target]

\* Mutant: comments marked as deleted are counted.
MeasureAll(t) ==
    /\ at[t] = "measure"
    /\ seen' = [seen EXCEPT ![t].number =
                   Cardinality({c \in Comments : Exists(c) /\ db.place[c] = PostOf(t)})]
    /\ Goto(t, "stats")
    /\ UNCHANGED <<db, disk, req, fresh, asked, told, early, disturbed>>

\* update_post_stats: SELECT COUNT(*), then UPDATE.
Measure(t) ==
    /\ at[t] = "measure"
    /\ seen' = [seen EXCEPT ![t].number = Cardinality(Answers(db, PostOf(t)))]
    /\ Goto(t, "stats")
    /\ UNCHANGED <<db, disk, req, fresh, asked, told, early, disturbed>>

Stats(t) ==
    /\ at[t] = "stats"
    /\ db' = [db EXCEPT !.count[PostOf(t)] = seen[t].number]
    /\ Goto(t, "commit")
    /\ UNCHANGED <<disk, req, seen, fresh, asked, told, early, disturbed>>

\* A statement on rows of the user's own: an edited text, a draft, a report, a
\* notification that was read, a blocked user.
Save(t) ==
    /\ at[t] = "save"
    /\ Goto(t, "commit")
    /\ UNCHANGED <<db, disk, req, seen, fresh, asked, told, early, disturbed>>

\* Mutant: the answer is sent before the commit.
CommitNothing(t) ==
    /\ at[t] = "commit"
    /\ told' = IF req[t].op = "vote"
               THEN [told EXCEPT ![Ballot(t)] = NewValue(t)] ELSE told
    /\ Return(t)
    /\ UNCHANGED <<db, disk, fresh, asked, early, disturbed>>

\* The last commit of a handler, and its answer.
Commit(t) ==
    /\ at[t] = "commit"
    /\ disk' = db
    /\ told' = IF req[t].op = "vote"
               THEN [told EXCEPT ![Ballot(t)] = NewValue(t)] ELSE told
    /\ Return(t)
    /\ UNCHANGED <<db, fresh, asked, early, disturbed>>

\* The background thread writes the scores of the posts, and commits.
Recalculate ==
    /\ disk # db
    /\ disk' = db
    /\ UNCHANGED <<db, at, req, seen, fresh, asked, told, early, disturbed>>

\* The process dies and is started again.
RestartForum ==
    /\ db' = disk
    /\ at' = [t \in Threads |-> "idle"]
    /\ seen' = [t \in Threads |-> Nothing]
    /\ req' = [t \in Threads |-> NoRequest]
    /\ disturbed' = disturbed \cup InWork
    /\ UNCHANGED <<disk, fresh, asked, told, early>>

HandlerStep(t) ==
    \/ VoteLookup(t)
    \/ VoteRecord(t)
    \/ VoteRollsBack(t)
    \/ VoteTally(t)
    \/ VoteAdjust(t)
    \/ Publish(t)
    \/ CheckRights(t)
    \/ Insert(t)
    \/ Erase(t)
    \/ Settle(t)
    \/ Measure(t)
    \/ Stats(t)
    \/ Save(t)
    \/ Commit(t)

ForumNext ==
    \/ \E t \in Threads : HandlerStep(t) \/ \E r \in Requests : Begin(t, r)
    \/ \E u \in Authors : Age(u)
    \/ Recalculate
    \/ RestartForum

ForumSpec == ForumInit /\ [][ForumNext]_forumVars

-----------------------------------------------------------------------------
(* Properties.                                                             *)

\* What a post's or comment's counter of votes should show: the votes of the
\* users who were no longer fresh when they cast them.
Cast(tables, x, v) ==
    {u \in Authors : tables.vote[<<u, x>>] = v /\ <<u, x>> \notin early}

Score(tables, x) == Cardinality(Cast(tables, x, 1)) - Cardinality(Cast(tables, x, -1))

Quiet(c) == c \notin disturbed \cup InWork

\* Counters: net_votes is the sum of the votes that count, and comment_count
\* the number of comments shown, unless two handlers changed the same counter
\* at a time, one was cut short by a crash or by another's rollback, or a user
\* voted again on what it had voted on while fresh.
CountersAgree ==
    /\ \A x \in Targets :
          Exists(x) /\ Quiet(<<"net", x>>) => db.net[x] = Score(db, x)
    /\ \A p \in Posts :
          Quiet(<<"count", p>>) => db.count[p] = Cardinality(Answers(db, p))

\* Durability: the vote a user was told to have is the one on disk, whatever
\* other threads commit and roll back, and whenever the process dies.
AnsweredIsStored ==
    \A b \in Ballots :
        /\ told[b] # NoVote
        /\ Quiet(<<"net", b[2]>>)
        => disk.vote[b] = told[b]

\* votes.py:2: changing a vote takes back the old one.  Violated when the old
\* vote was cast by a fresh user and did not count.
WithdrawnVotesLeaveNothing ==
    \A x \in Targets :
        /\ Exists(x)
        /\ \A t \in Threads : ~Busy(t)
        /\ \A u \in Authors : db.vote[<<u, x>>] \in {0, NoVote}
        => db.net[x] >= 0

=============================================================================
