------------------------------- MODULE Pagination -------------------------------
(***************************************************************************)
(* The keyset pagination toolkit (utils/pagination.js) as a client uses it *)
(* to walk through a list, page by page, while rows of the table come and  *)
(* go.  The SELECT of an endpoint is external: the header of the file and  *)
(* migration 06 prescribe it (newest first, (sort column, key) below the   *)
(* cursor, limit + 1 rows); no route of the repository uses it yet.        *)
(*                                                                         *)
(* A request is one step: it reads the table once.  Rows are named by      *)
(* their keys, and a sort column is counted in the ticks of the database   *)
(* clock, of which a cursor keeps only whole milliseconds.                 *)
(***************************************************************************)
EXTENDS Naturals, Sequences, SequencesExt, FiniteSets, FiniteSetsExt

CONSTANTS
    MinLimit, DefaultLimit, MaxLimit, ClampMax,  \* opts of validateLimit()
    Raw,          \* limits a client may send
    Absent,       \* undefined, null or ""
    TicksPerMs,   \* ticks of the sort column in a millisecond of a Date
    MaxTime,      \* bound on the sort column
    MaxRows,      \* bound on the rows ever inserted
    MaxDeploys    \* bound on new signing secrets

ASSUME PaginationAssumption ==
    /\ {MinLimit, DefaultLimit, MaxLimit, TicksPerMs} \subseteq Nat \ {0}
    /\ MinLimit <= DefaultLimit /\ DefaultLimit <= MaxLimit
    /\ ClampMax \in BOOLEAN /\ Raw \subseteq Nat /\ Absent \notin Raw
    /\ {MaxTime, MaxRows, MaxDeploys} \subseteq Nat

VARIABLES
    rows,         \* the rows of the list: sort column and key
    lastId,       \* the IDENTITY of the table
    secret,       \* the signing secret of the server
    (* the client *)
    token,        \* the cursor it holds: anchor and signature, or NoToken
    walk,         \* "new", "more" or "done"
    got,          \* the rows of its pages, in order
    (* history *)
    stayed        \* the rows that have been in the list all along

walkVars == <<rows, lastId, secret, token, walk, got, stayed>>

AllRows == [time : 0..MaxTime, id : 1..MaxRows]

NoToken == [ts |-> 0, id |-> 0, secret |-> 0]

WalkTypeOK ==
    /\ rows \subseteq AllRows /\ lastId \in 0..MaxRows
    /\ secret \in 1..(MaxDeploys + 1)
    /\ token \in [ts : 0..MaxTime, id : 0..MaxRows, secret : 0..(MaxDeploys + 1)]
    /\ walk \in {"new", "more", "done"}
    /\ got \in Seq(AllRows) /\ stayed \subseteq rows

WalkInit ==
    /\ \E n \in 0..MaxRows : \E time \in [1..n -> 0..MaxTime] :
           /\ rows = {[time |-> time[i], id |-> i] : i \in 1..n}
           /\ lastId = n
    /\ secret = 1
    /\ token = NoToken /\ walk = "new" /\ got = <<>> /\ stayed = {}

-----------------------------------------------------------------------------
(* The table, and the deployment                                           *)

Insert(t) ==
    /\ lastId < MaxRows
    /\ lastId' = lastId + 1
    /\ rows' = rows \cup {[time |-> t, id |-> lastId + 1]}
    /\ UNCHANGED <<secret, token, walk, got, stayed>>

Delete(r) ==
    /\ rows' = rows \ {r}
    /\ stayed' = stayed \ {r}
    /\ UNCHANGED <<lastId, secret, token, walk, got>>

(* A new JWT_SECRET: the cursors handed out so far do not verify.          *)
Deploy ==
    /\ secret <= MaxDeploys
    /\ secret' = secret + 1
    /\ UNCHANGED <<rows, lastId, token, walk, got, stayed>>

-----------------------------------------------------------------------------
(* The parameters of a request                                             *)

(* body.limit, body.pageSize, query.limit, query.pageSize *)
Params == [1..4 -> Raw \cup {Absent}]

PickParam(primary, alias) == IF primary = Absent THEN alias ELSE primary

LimitParam(p) == PickParam(PickParam(p[1], p[2]), PickParam(p[3], p[4]))

(* validateLimit(); 0 stands for a 400. *)
EffectiveLimit(raw) ==
    IF raw = Absent THEN DefaultLimit
    ELSE IF raw < MinLimit \/ (raw > MaxLimit /\ ~ClampMax) THEN 0
    ELSE Min({raw, MaxLimit})

(* The limits of the requests that are not refused. *)
Limits == {EffectiveLimit(LimitParam(p)) : p \in Params} \ {0}

(* decodeCursor() *)
Verifies(t) == t.secret = secret

(* The driver makes a Date of the DATETIME2 of the anchor, and its getTime *)
(* is the ts of the cursor: whole milliseconds.                            *)
InMs(t) == t - (t % TicksPerMs)

(* Mutant: the signature is made with the secret of the first deployment. *)
EncodeAsFirst(r) == [ts |-> InMs(r.time), id |-> r.id, secret |-> 1]

(* encodeCursor(cursorOf(row)) *)
EncodeCursor(r) == [ts |-> InMs(r.time), id |-> r.id, secret |-> secret]

-----------------------------------------------------------------------------
(* The page                                                                *)

Before(r, s) == r.time > s.time \/ (r.time = s.time /\ r.id > s.id)

(* WHERE (sort, key) < (@cursorSort, @cursorKey) *)
Below(t) ==
    {r \in rows : t = NoToken \/ r.time < t.ts \/ (r.time = t.ts /\ r.id < t.id)}

(* ORDER BY: every row of a list at its place. *)
Place(r, list) == Cardinality({s \in list : Before(s, r)}) + 1

Ordered(list) ==
    [i \in 1..Cardinality(list) |-> CHOOSE r \in list : Place(r, list) = i]

(* Over-fetched: one row more than the page. *)
Fetched(t, limit) ==
    LET list == Ordered(Below(t))
    IN SubSeq(list, 1, Min({limit + 1, Len(list)}))

PageOf(fetched, limit) == SubSeq(fetched, 1, Min({limit, Len(fetched)}))

HasMore(fetched, limit) == Len(fetched) > limit

(* Mutant: the next cursor is that of the extra row. *)
AnchorFetched(fetched, limit) == Last(fetched)

Anchor(fetched, limit) == Last(PageOf(fetched, limit))

(* A request, and buildPaginatedResponse().  The client goes on with the   *)
(* cursor as long as there is one.                                         *)
FetchPage(limit) ==
    LET fetched == Fetched(token, limit)
    IN  /\ walk # "done"
        /\ token = NoToken \/ Verifies(token)
        /\ got' = got \o PageOf(fetched, limit)
        /\ IF HasMore(fetched, limit)
           THEN walk' = "more" /\ token' = EncodeCursor(Anchor(fetched, limit))
           ELSE walk' = "done" /\ token' = NoToken
        /\ stayed' = IF walk = "new" THEN rows ELSE stayed
        /\ UNCHANGED <<rows, lastId, secret>>

(* 400 "Invalid pagination cursor": the client starts over. *)
StartOver ==
    /\ walk = "more" /\ ~Verifies(token)
    /\ token' = NoToken /\ walk' = "new" /\ got' = <<>> /\ stayed' = {}
    /\ UNCHANGED <<rows, lastId, secret>>

WalkNext ==
    \/ \E t \in 0..MaxTime : Insert(t)
    \/ \E r \in rows : Delete(r)
    \/ Deploy
    \/ \E limit \in Limits : FetchPage(limit)
    \/ StartOver

WalkSpec == WalkInit /\ [][WalkNext]_walkVars

(* The client goes on asking, with limits that are accepted. *)
WalkFairSpec ==
    /\ WalkSpec
    /\ WF_walkVars((\E limit \in Limits : FetchPage(limit)) \/ StartOver)

-----------------------------------------------------------------------------
(* Properties *)

(* Pages never overlap and never go back ...                               *)
PagesInOrder == \A i \in 1..(Len(got) - 1) : Before(got[i], got[i + 1])

(* ... and leave nothing out: a row that was in the list all along is in   *)
(* the pages, or still below the cursor.  The sort columns of migration 06 *)
(* are DATETIME2, finer than a cursor: it does not hold (TicksPerMs > 1).  *)
NothingLeftOut ==
    CASE walk = "new"  -> TRUE
      [] walk = "more" -> stayed \subseteq Range(got) \cup Below(token)
      [] walk = "done" -> stayed \subseteq Range(got)

(* What comes after a row of the pages, but not below the cursor made from *)
(* it, which has the start of the row's millisecond: the older rows of     *)
(* that millisecond.                                                       *)
CutOff ==
    {r \in AllRows : \E s \in Range(got) :
        /\ Before(s, r)
        /\ InMs(s.time) < r.time \/ (InMs(s.time) = r.time /\ s.id <= r.id)}

(* Whatever page sizes a walk asked for and whatever was inserted or       *)
(* deleted between its pages: they never overlap nor go back, and a row    *)
(* that was in the list all along is in them, still to come, or cut off by *)
(* the cursor of a page, in the millisecond of a row that was shown.       *)
WalkOrdered ==
    /\ PagesInOrder
    /\ walk = "more" => stayed \subseteq Range(got) \cup Below(token) \cup CutOff
    /\ walk = "done" => stayed \subseteq Range(got) \cup CutOff

(* No page leaves the client where it was: each answer is the last one, or *)
(* its cursor is below the one of the request.                             *)
Descends ==
    \/ walk' = "done"
    \/ token = NoToken
    \/ token'.ts < token.ts
    \/ token'.ts = token.ts /\ token'.id < token.id

WalkAdvances == [][(\E limit \in Limits : FetchPage(limit)) => Descends]_walkVars

(* A walk comes to its end, also when rows keep appearing and a deployment *)
(* makes it start over.                                                    *)
WalkEnds == <>(walk = "done")

=============================================================================
