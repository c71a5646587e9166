--------------------------- MODULE MediaRequests ---------------------------
(***************************************************************************)
(* The server's side of the media requests of one portal user (services.py  *)
(* and api/portal_requests.py).  A submission and the addition of a season  *)
(* both check first, then await MoviePilot, then write: CreateBegin and     *)
(* CreateEnd, AddSeasonBegin and AddSeasonEnd are the two halves of a       *)
(* handler, and everything else may happen between them.                    *)
(***************************************************************************)
EXTENDS Browser, Sequences, SequencesExt

CONSTANTS Items,        \* the works (media type, source and id) in play
          SeasonsOf,    \* the seasons of each of them, none for a movie
          Histories,    \* what the user has requested before
          MoviePilotHas,\* the works MoviePilot may find in its own library
          MaxRows       \* bound: rows of the user

Season == UNION {SeasonsOf[k] : k \in Items}

(* A removed row has left the table, its id is not given to another one.    *)
Row == [key : Items, status : {"pending", "in_library", "rejected", "removed"},
        seasons : SUBSET Season]

(* What the browser knows of a work.                                        *)
ItemType == [key : Items, id : Int,
             status : {"none", "pending", "in_library", "rejected"},
             seasons : SUBSET Season, info : BOOLEAN]

ASSUME MediaAssumption ==
    /\ None \notin ItemType
    /\ SeasonsOf \in [Items -> SUBSET Nat]
    /\ MoviePilotHas \subseteq Items
    /\ \A h \in Histories :
          /\ h \in Seq(Row)
          /\ \A i, j \in DOMAIN h :
                h[i].key = h[j].key /\ h[i].status = "pending" /\ h[j].status = "pending"
                   => i = j

VARIABLES rows,         \* the user's media_requests, oldest first
          library       \* works some row or summary of the server shows in_library

serverVars == <<rows, library>>

RowId == DOMAIN rows

IsShow(k) == SeasonsOf[k] # {}

PendingRows(k) == {i \in RowId : rows[i].key = k /\ rows[i].status = "pending"}

(* An object of the browser that describes a work.  id is 0 in a search     *)
(* result, -1 in a library entry that is not the user's own row; info says  *)
(* whether it carries the season list.                                      *)
Item(k, i, status, seasons, info) ==
    [key |-> k, id |-> i, status |-> status, seasons |-> seasons, info |-> info]

Snapshot(i) ==          \* _media_request_json
    Item(rows[i].key, i, rows[i].status, rows[i].seasons, IsShow(rows[i].key))

SharedEntry(k, status) == Item(k, -1, status, {}, IsShow(k))

LibraryEntry(k) ==
    IF \E i \in RowId : rows[i].key = k /\ rows[i].status = "in_library"
    THEN Snapshot(CHOOSE i \in RowId : rows[i].key = k /\ rows[i].status = "in_library")
    ELSE SharedEntry(k, "in_library")

(* portal_media_requests: the user's open and rejected rows, the server's   *)
(* library.                                                                 *)
Lists == [pending    |-> {Snapshot(i) : i \in {j \in RowId : rows[j].status = "pending"}},
          rejected   |-> {Snapshot(i) : i \in {j \in RowId : rows[j].status = "rejected"}},
          in_library |-> {LibraryEntry(k) : k \in library}]

(* create_media_request up to the await of the work's details.              *)
CreateBegin(s) ==
    /\ Arrived(s, "create")
    /\ LET k == net[s].arg.key
       IN  IF k \in library \/ PendingRows(k) # {}
           THEN Answer(s, "refused", None)
           ELSE Hold(s, None)
    /\ UNCHANGED <<answerVars, serverVars>>

(* Mutant: the index covers nothing.                                        *)
InsertUnchecked(k) == k \in Items

(* ... and from the answers of MoviePilot on: the partial unique index      *)
(* refuses a second pending row.                                            *)
InsertAllowed(k) == PendingRows(k) = {}

CreateEnd(s) ==
    /\ net[s].op = "create"
    /\ net[s].status = "held"
    /\ LET k == net[s].arg.key
       IN  \/ /\ Answer(s, "refused", None)
              /\ UNCHANGED rows
           \/ /\ InsertAllowed(k)
              /\ rows' = Append(rows, [key |-> k, status |-> "pending",
                                       seasons |-> net[s].arg.seasons])
              /\ Answer(s, "ok", None)
    /\ UNCHANGED <<answerVars, library>>

(* add_media_request_season up to the await of MoviePilot: the row's list   *)
(* of seasons is read here.                                                 *)
AddSeasonBegin(s) ==
    /\ Arrived(s, "season")
    /\ LET i == net[s].arg.id
           n == net[s].arg.season
       IN  IF i \notin RowId
           THEN Answer(s, "refused", None)
           ELSE IF rows[i].status # "pending" \/ ~IsShow(rows[i].key)
           THEN Answer(s, "refused", None)
           ELSE IF n \in rows[i].seasons
           THEN Answer(s, "ok", Snapshot(i))
           ELSE Hold(s, rows[i].seasons)
    /\ UNCHANGED <<answerVars, serverVars>>

(* ... and the write of the whole list that was read, to a row that is      *)
(* still in the table.                                                      *)
AddSeasonEnd(s) ==
    /\ net[s].op = "season"
    /\ net[s].status = "held"
    /\ LET i    == net[s].arg.id
           list == net[s].data \cup {net[s].arg.season}
       IN  \/ /\ Answer(s, "refused", None)
              /\ UNCHANGED rows
           \/ /\ rows[i].status # "removed"
              /\ rows' = [rows EXCEPT ![i].seasons = list]
              /\ Answer(s, "ok", Item(rows[i].key, i, "pending", list, TRUE))
    /\ UNCHANGED <<answerVars, library>>

WithStatus(ids, status) ==
    [i \in RowId |-> IF i \in ids THEN [rows[i] EXCEPT !.status = status] ELSE rows[i]]

(* confirm_media_request_group: every row of the work, the rejected ones    *)
(* too.  An open row of another user is enough for it.                      *)
Confirm(k) ==
    /\ library' = library \cup {k}
    /\ rows' = WithStatus({i \in RowId : rows[i].key = k /\ rows[i].status # "removed"},
                        "in_library")
    /\ UNCHANGED <<clickVars, net>>

(* _upsert_request_summary writes "rejected" over the summary of a work; it *)
(* is out of the library then, unless a row of anyone is still in it.       *)
LibraryMayLose(works, left) ==
    \E lost \in SUBSET works :
        /\ \A i \in DOMAIN left : left[i].status = "in_library" => left[i].key \notin lost
        /\ library' = library \ lost

(* reject_media_request_group, for the open rows of all users.              *)
Reject(k) ==
    /\ rows' = WithStatus(PendingRows(k), "rejected")
    /\ LibraryMayLose({k}, rows')
    /\ UNCHANGED <<clickVars, net>>

(* purge_old_tmdb_history: decided rows that are old enough leave the table, *)
(* each into the summary of its work.                                       *)
Purge ==
    /\ \E old \in SUBSET {i \in RowId : rows[i].status \in {"in_library", "rejected"}} :
          /\ old # {}
          /\ rows' = WithStatus(old, "removed")
          /\ LibraryMayLose({rows[i].key : i \in {j \in old : rows[j].status = "rejected"}},
                            rows')
    /\ UNCHANGED <<clickVars, net>>

(* request_detail_api: the row, as long as it is in the table.  The summary *)
(* or the row of another user answers while it shows the work in_library; a *)
(* summary that says otherwise by now still answers, with what it says.     *)
ServeRow(s, k, i) ==
    \/ /\ i \in RowId
       /\ IF rows[i].status = "removed" THEN Answer(s, "refused", None)
          ELSE Answer(s, "ok", Snapshot(i))
    \/ /\ i = -1
       /\ IF k \in library THEN Answer(s, "ok", SharedEntry(k, "in_library"))
          ELSE \/ Answer(s, "ok", SharedEntry(k, "rejected"))
               \/ Answer(s, "refused", None)

(* requests_api, request_search_api, request_detail_api and                 *)
(* request_tmdb_details_api: reads.  MoviePilot is asked for each work      *)
(* whether its library has it (an error is a no), and whether an answer     *)
(* carries the seasons is up to it.                                         *)
ServeRead(s) ==
    /\ \/ /\ Arrived(s, "lists")
          /\ Answer(s, "ok", Lists)
       \/ /\ Arrived(s, "search")
          /\ \E there \in SUBSET MoviePilotHas, info \in BOOLEAN :
                Answer(s, "ok", [there |-> there, info |-> info])
       \/ /\ Arrived(s, "row")
          /\ ServeRow(s, net[s].arg.key, net[s].arg.id)
       \/ /\ Arrived(s, "work")
          /\ \E there, info \in BOOLEAN :
                /\ there => net[s].arg.key \in MoviePilotHas
                /\ info => IsShow(net[s].arg.key)
                /\ Answer(s, "ok", [there |-> there, info |-> info])
    /\ UNCHANGED <<answerVars, serverVars>>

(* The same user on another device.                                         *)
Elsewhere(op, arg) == [Fetch(op, arg) EXCEPT !.owner = "gone"]

OtherDevice ==
    /\ Event
    /\ \E k \in Items :
          \/ /\ Len(rows) < MaxRows
             /\ \E some \in {{}, SeasonsOf[k]} :
                   Send(Elsewhere("create", Item(k, 0, "none", some, TRUE)))
          \/ \E i \in PendingRows(k), n \in SeasonsOf[k] :
                Send(Elsewhere("season", [id |-> i, season |-> n]))
    /\ UNCHANGED <<clickVars, serverVars>>

ServerStep(s) == \/ CreateBegin(s) \/ CreateEnd(s)
                 \/ AddSeasonBegin(s) \/ AddSeasonEnd(s)
                 \/ ServeRead(s)

AdminStep == Event /\ (Purge \/ \E k \in Items : Confirm(k) \/ Reject(k))

MediaInit == /\ rows \in Histories
             /\ library = {rows[i].key : i \in {j \in RowId : rows[j].status = "in_library"}}

MediaTypeOK ==
    /\ rows \in Seq(Row)
    /\ library \subseteq Items

(* A user never has two open requests of one work, whichever devices and    *)
(* however many retries of a lost answer they come from: the check before   *)
(* the await of MoviePilot does not see a request that is still on its way, *)
(* the partial unique index at the commit does.                             *)
OneOpenRequest == \A k \in Items : \A i, j \in PendingRows(k) : i = j
=============================================================================
