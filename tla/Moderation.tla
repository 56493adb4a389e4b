------------------------------ MODULE Moderation ------------------------------
(***************************************************************************)
(* The calls around the bans of Bans: /report from the check of its token  *)
(* to its answer, over the users, the uploaded screenshots and the stored  *)
(* reports, and the admin, who walks the list of reports page by page and  *)
(* bans and unbans meanwhile.                                              *)
(*                                                                         *)
(* recordReport is two steps here, its begin (which gives the row its time)*)
(* and its end; Reports has it statement by statement, and says when it    *)
(* bans.  The two AddBlock calls of reportHandler are those of blockHandler*)
(* in Backend.                                                             *)
(***************************************************************************)
EXTENDS Bans, SequencesExt

CONSTANTS
    ReportCall,    \* the calls that are reports; the others are the admin's
    ReporterOf,
    Limits,        \* the page sizes that the admin may choose
    MayTie,        \* may two transactions begin in the same microsecond?
    Environments   \* what a behaviour may contain, see Environment

\* Which connections and calls there are, which reports have been stored
\* before, oldest first, and whether the admin walks the list.
Environment ==
    [conns : SUBSET Conn, calls : SUBSET BanCall, old : Seq(ReportCall),
     walks : BOOLEAN]

ASSUME ModerationAssumption ==
    /\ ReportCall \subseteq BanCall
    /\ IsFiniteSet(ReportCall)
    /\ ReporterOf \in [ReportCall -> User]
    /\ Limits \subseteq Nat \ {0}
    /\ MayTie \in BOOLEAN
    /\ \A e \in Environments : e \in Environment /\ IsInjective(e.old)

VARIABLES
    env,
    users,      \* the rows of table users
    objects,    \* the calls whose screenshot is in the bucket
    stored,     \* the calls whose row is in table reports
    createdAt,  \* the time of a row
    clock,      \* the latest of these times
    report,     \* where reportHandler stands
    walk        \* the admin's walk through the list

reporting == <<users, objects, stored, createdAt, clock, report>>
modVars == <<vars, reporting, walk, env>>

ReportPc == {"new", "known", "uploaded", "begun", "ended", "failed"}

\* What the type of every variable is; a stored row refers to users.
ModTypeOK ==
    /\ TypeOK
    /\ env \in Environments
    /\ users \subseteq User
    /\ objects \subseteq ReportCall
    /\ stored \subseteq ReportCall
    /\ \A k \in stored : {ReporterOf[k], Target[k]} \subseteq users
    /\ clock \in 0 .. Cardinality(ReportCall)
    /\ createdAt \in [ReportCall -> 0 .. clock]
    /\ report \in [ReportCall -> ReportPc]
    /\ walk \in [at : {"no", "rows", "count", "shown"}, limit : {0} \cup Limits,
                 page : Nat, pages : Nat, rows : SUBSET stored,
                 seen : SUBSET stored, due : SUBSET stored]

Nowhere == [at |-> "no", limit |-> 0, page |-> 1, pages |-> 0,
            rows |-> {}, seen |-> {}, due |-> {}]

ModInit ==
    /\ Init
    /\ env \in Environments
    /\ stored = ToSet(env.old)
    /\ objects = stored
    /\ users = UNION {{ReporterOf[k], Target[k]} : k \in stored}
    /\ clock = Len(env.old)
    /\ createdAt = [k \in ReportCall |->
                      IF k \in stored
                      THEN CHOOSE i \in DOMAIN env.old : env.old[i] = k ELSE 0]
    /\ report = [k \in ReportCall |-> IF k \in stored THEN "ended" ELSE "new"]
    /\ walk = Nowhere

-----------------------------------------------------------------------------
(***************************************************************************)
(* POST /report.                                                           *)
(***************************************************************************)
Moves(k, from, to) ==
    /\ report[k] = from
    /\ report' = [report EXCEPT ![k] = to]

\* The token, the form or the size of the screenshot is refused.
Refuse(k) ==
    /\ Moves(k, "new", "failed")
    /\ UNCHANGED <<vars, users, objects, stored, createdAt, clock, walk, env>>

\* Wrong: only a user that has connected has a row.
IdentifyWithoutStub(k) ==
    /\ Moves(k, "new", "known")
    /\ Target[k] # ReporterOf[k]
    /\ users' = users \cup {ReporterOf[k]}
    /\ UNCHANGED <<vars, objects, stored, createdAt, clock, walk, env>>

\* Both users have a row, the reported one a stub if it has never connected.
Identify(k) ==
    /\ Moves(k, "new", "known")
    /\ Target[k] # ReporterOf[k]
    /\ users' = users \cup {ReporterOf[k], Target[k]}
    /\ UNCHANGED <<vars, objects, stored, createdAt, clock, walk, env>>

\* Postgres fails, before or after the row of the reporter.
IdentifyFails(k) ==
    /\ Moves(k, "new", "failed")
    /\ Target[k] # ReporterOf[k]
    /\ users' \in {users, users \cup {ReporterOf[k]}}
    /\ UNCHANGED <<vars, objects, stored, createdAt, clock, walk, env>>

Upload(k) ==
    /\ Moves(k, "known", "uploaded")
    /\ objects' = objects \cup {k}
    /\ UNCHANGED <<vars, users, stored, createdAt, clock, walk, env>>

\* The upload fails, or succeeds without an answer.
UploadFails(k) ==
    /\ Moves(k, "known", "failed")
    /\ objects' \in {objects, objects \cup {k}}
    /\ UNCHANGED <<vars, users, stored, createdAt, clock, walk, env>>

\* BEGIN: created_at is the NOW() of the transaction.
Begin(k) ==
    /\ Moves(k, "uploaded", "begun")
    /\ clock' \in IF MayTie THEN {clock, clock + 1} ELSE {clock + 1}
    /\ createdAt' = [createdAt EXCEPT ![k] = clock']
    /\ UNCHANGED <<vars, users, objects, stored, walk, env>>

\* COMMIT, with the user banned or not.
Store(k) ==
    /\ Moves(k, "begun", "ended")
    /\ stored' = stored \cup {k}
    /\ Ban(k) \/ UNCHANGED vars
    /\ UNCHANGED <<users, objects, createdAt, clock, walk, env>>

\* Wrong: the screenshot is deleted whenever recordReport returns an error.
StoreUnheardTidy(k) ==
    /\ Moves(k, "begun", "failed")
    /\ stored' = stored \cup {k}
    /\ BanUnheard(k) \/ UNCHANGED vars
    /\ objects' = objects \ {k}
    /\ UNCHANGED <<users, createdAt, clock, walk, env>>

\* The same as Store, and the reply is lost.
StoreUnheard(k) ==
    /\ Moves(k, "begun", "failed")
    /\ stored' = stored \cup {k}
    /\ BanUnheard(k) \/ UNCHANGED vars
    /\ UNCHANGED <<users, objects, createdAt, clock, walk, env>>

\* recordReport fails and is rolled back; the screenshot stays.
StoreFails(k) ==
    /\ Moves(k, "begun", "failed")
    /\ UNCHANGED <<vars, users, objects, stored, createdAt, clock, walk, env>>

ReportStep(k) ==
    \/ Refuse(k) \/ Identify(k) \/ IdentifyFails(k)
    \/ Upload(k) \/ UploadFails(k)
    \/ Begin(k) \/ Store(k) \/ StoreUnheard(k) \/ StoreFails(k)

-----------------------------------------------------------------------------
(***************************************************************************)
(* The list of reports.                                                    *)
(***************************************************************************)
\* ORDER BY created_at DESC.
Listings ==
    {q \in SetToSeqs(stored) :
        \A m, n \in DOMAIN q : m < n => createdAt[q[m]] >= createdAt[q[n]]}

\* LIMIT limit OFFSET (page - 1) * limit.
PageOf(q, page, limit) ==
    {q[n] : n \in DOMAIN q \cap ((page - 1) * limit + 1 .. page * limit)}

Pages(total, limit) == (total + limit - 1) \div limit

\* The admin opens the list.
OpenList ==
    /\ walk.at = "no"
    /\ env.walks
    /\ \E limit \in Limits :
          walk' = [Nowhere EXCEPT !.at = "rows", !.limit = limit, !.due = stored]
    /\ UNCHANGED <<vars, reporting, env>>

\* The first query of listReports.
ListRows ==
    /\ walk.at = "rows"
    /\ \E q \in Listings :
          walk' = [walk EXCEPT !.at = "count",
                               !.rows = PageOf(q, walk.page, walk.limit)]
    /\ UNCHANGED <<vars, reporting, env>>

\* Wrong: the number of pages is that of when the list was opened.
ListCountCached ==
    /\ walk.at = "count"
    /\ walk' = [walk EXCEPT !.at = "shown", !.rows = {},
                            !.seen = @ \cup walk.rows,
                            !.pages = Pages(Cardinality(walk.due), walk.limit)]
    /\ UNCHANGED <<vars, reporting, env>>

\* Its second; renderList shows the page.
ListCount ==
    /\ walk.at = "count"
    /\ walk' = [walk EXCEPT !.at = "shown", !.rows = {},
                            !.seen = @ \cup walk.rows,
                            !.pages = Pages(Cardinality(stored), walk.limit)]
    /\ UNCHANGED <<vars, reporting, env>>

\* It fails instead; the admin loads the page again.
ListFails ==
    /\ walk.at = "count"
    /\ walk' = [walk EXCEPT !.at = "rows", !.rows = {}]
    /\ UNCHANGED <<vars, reporting, env>>

\* The button Next, disabled on the last page.
NextPage ==
    /\ walk.at = "shown"
    /\ walk.page < walk.pages
    /\ walk' = [walk EXCEPT !.at = "rows", !.page = @ + 1]
    /\ UNCHANGED <<vars, reporting, env>>

Walk == OpenList \/ ListRows \/ ListCount \/ ListFails \/ NextPage

-----------------------------------------------------------------------------
\* handleConnections, which upserts the user before it looks at the ban.
Connect(c) ==
    /\ Admit(c)
    /\ c \in env.conns
    /\ users' = users \cup {UserOf[c]}
    /\ UNCHANGED <<objects, stored, createdAt, clock, report, walk, env>>

\* adminUserAction; a user without a row is not found.
AdminBan(k) ==
    /\ Ban(k)
    /\ Target[k] \in users
    /\ UNCHANGED <<reporting, walk, env>>

Admin == \E u \in User : Unban(u) /\ UNCHANGED <<reporting, walk, env>>

Leave(c) == ReadEnds(c) /\ UNCHANGED <<reporting, walk, env>>
Serve(c) == Server(c) /\ UNCHANGED <<reporting, walk, env>>
Close(k) == Sever(k) /\ UNCHANGED <<reporting, walk, env>>

ModNext ==
    \/ \E c \in Conn : Connect(c) \/ Leave(c) \/ Serve(c)
    \/ \E k \in env.calls \cap ReportCall : ReportStep(k)
    \/ \E k \in env.calls \ ReportCall : AdminBan(k)
    \/ \E k \in BanCall : Close(k)
    \/ Admin
    \/ Walk

ModSpec == ModInit /\ [][ModNext]_modVars

\* A handler that has begun goes on; clients and admins need not act.
ModFairSpec ==
    /\ ModSpec
    /\ \A c \in Conn : WF_modVars(Serve(c))
    /\ \A k \in BanCall : WF_modVars(Close(k))

-----------------------------------------------------------------------------
(***************************************************************************)
(* Properties.                                                             *)
(***************************************************************************)
\* Every report that the admin can list has its screenshot in the bucket,
\* whatever failed and whichever reply was lost ("The screenshot is stored in
\* object storage and a row is persisted"); what is there without a row
\* belongs to a call that still runs or has failed.
ScreenshotStored ==
    /\ stored \subseteq objects
    /\ \A k \in objects \ stored : report[k] \in {"uploaded", "begun", "failed"}

\* An admin who pages through the list to its last page has seen every report
\* that was there when the walk began, though new ones come in, though those
\* that began before others may be stored after them, and though rows and
\* count of a page are two queries.
WalkMissesNothing ==
    (walk.at = "shown" /\ walk.page >= walk.pages) => walk.due \subseteq walk.seen
=============================================================================
