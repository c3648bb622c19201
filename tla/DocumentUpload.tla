--------------------------- MODULE DocumentUpload ---------------------------
(***************************************************************************)
(* The forms of the web client that take several requests: ask the API for *)
(* a presigned URL, post the file to S3, save the key with the API.  The   *)
(* change of a password goes through the same steps without a file.        *)
(*                                                                         *)
(* Pages are the places where the form is open: tabs, and the two copies of*)
(* each page that dashboard/layout.tsx mounts.  A page has one submission  *)
(* at a time: its button is disabled meanwhile.                            *)
(***************************************************************************)
CONSTANTS Pages, Files,
          Keys,   \* names in the bucket; one that nothing refers to any more is used again
          NoFile, NoKey, NoRequest

ASSUME UploadAssumption == NoFile \notin Files

\* A form: its two requests, as <<method, path>>, and what a save does: it overwrites a column,
\* adds a row, or adds a row that there can be only one of.
Form(url, save, effect) == [url |-> url, save |-> save, effect |-> effect]

LogoUpload == Form(<<"POST", "clubs/logo-upload-url">>, <<"PATCH", "clubs">>, "column")
CoverUpload == Form(<<"POST", "clubs/cover-upload-url">>, <<"PATCH", "clubs">>, "column")
PhotoUpload == Form(<<"POST", "players/me/photo-upload-url">>, <<"PATCH", "players">>, "column")

NicUpload ==
  Form(<<"POST", "players/me/nic-upload-url">>, <<"PATCH", "players/me/nic-document">>, "column")
LetterUpload ==
  Form(<<"POST", "players/me/release-letter-upload-url">>,
       <<"POST", "players/me/release-letters">>, "rows")

ExternalDocument ==
  Form(<<"POST", "players/me/document-upload-url">>, <<"POST", "players/me/documents">>, "rows")
ReleaseUpload == Form(<<"GET", "releases/document-upload-url">>, <<"POST", "releases">>, "once")
PasswordChange == Form(NoRequest, <<"POST", "auth/change-password">>, "column")

Flows == {LogoUpload, CoverUpload, PhotoUpload, NicUpload, LetterUpload, ExternalDocument,
          ReleaseUpload, PasswordChange}

\* What the routers of the API serve.  The request of ReleaseUpload for a URL, with a GET, and
\* the one of PasswordChange are not among it: these two forms never save anything.
ClubRoutes ==
  {<<"POST", "clubs/logo-upload-url">>, <<"POST", "clubs/cover-upload-url">>, <<"PATCH", "clubs">>}
PlayerRoutes ==
  {<<"POST", "players/me/photo-upload-url">>, <<"PATCH", "players">>,
   <<"POST", "players/me/nic-upload-url">>, <<"PATCH", "players/me/nic-document">>,
   <<"POST", "players/me/release-letter-upload-url">>, <<"POST", "players/me/release-letters">>,
   <<"POST", "players/me/document-upload-url">>, <<"POST", "players/me/documents">>}
ReleaseRoutes == {<<"POST", "releases/document-upload-url">>, <<"POST", "releases">>}
AuthRoutes == {<<"POST", "auth/login">>, <<"POST", "auth/complete-challenge">>,
               <<"POST", "auth/refresh">>, <<"POST", "auth/logout">>}

Served(request) == request \in ClubRoutes \cup PlayerRoutes \cup ReleaseRoutes \cup AuthRoutes

-----------------------------------------------------------------------------
VARIABLES flow,    \* fixed
          page,    \* per page: the step of its submission, the file, the key
          bucket,  \* per key: the file that is stored, or NoFile
          late,    \* the keys whose URL has expired
          rows     \* the keys that the database names

vars == <<flow, page, bucket, late, rows>>

Idle == [step |-> "idle", file |-> NoFile, key |-> NoKey]

TypeOK ==
  /\ flow \in Flows
  /\ page \in [Pages -> [step : {"idle", "ask", "put", "save"}, file : Files \cup {NoFile},
                         key : Keys \cup {NoKey}]]
  /\ bucket \in [Keys -> Files \cup {NoFile}]
  /\ late \in SUBSET Keys /\ rows \in SUBSET Keys

Init == /\ flow \in Flows
        /\ page = [p \in Pages |-> Idle]
        /\ bucket = [k \in Keys |-> NoFile]
        /\ late = {} /\ rows = {}

At(p, step) == page[p].step = step
Ends(p) == page' = [page EXCEPT ![p] = Idle]

Submit(p, f) ==
  /\ At(p, "idle")
  /\ page' = [page EXCEPT ![p] = [step |-> "ask", file |-> f, key |-> NoKey]]
  /\ UNCHANGED <<flow, bucket, late, rows>>

\* uuid4: a key that nothing refers to.
Fresh(k) == k \notin rows /\ \A p \in Pages : page[p].key # k

\* generate_upload_url; the URL is good for 900 seconds.
Ask(p, k) ==
  /\ At(p, "ask") /\ Fresh(k) /\ (flow.url = NoRequest \/ Served(flow.url))
  /\ page' = [page EXCEPT ![p].step = IF flow.url = NoRequest THEN "save" ELSE "put", ![p].key = k]
  /\ bucket' = [bucket EXCEPT ![k] = NoFile]
  /\ late' = late \ {k}
  /\ UNCHANGED <<flow, rows>>

Expire(k) ==
  /\ k \notin late /\ late' = late \cup {k}
  /\ UNCHANGED <<flow, page, bucket, rows>>

\* Mutant: the handler goes on whatever S3 answers.
PutUnchecked(p) ==
  /\ At(p, "put")
  /\ bucket' = [bucket EXCEPT ![page[p].key] = IF page[p].key \in late THEN @ ELSE page[p].file]
  /\ page' = [page EXCEPT ![p].step = "save"]
  /\ UNCHANGED <<flow, late, rows>>

\* The multipart POST to S3; an answer that is not ok is thrown (Fail).
Put(p) ==
  /\ At(p, "put") /\ page[p].key \notin late
  /\ bucket' = [bucket EXCEPT ![page[p].key] = page[p].file]
  /\ page' = [page EXCEPT ![p].step = "save"]
  /\ UNCHANGED <<flow, late, rows>>

\* The save does not look into the bucket.
Saved(k) == IF flow.effect = "column" THEN {k} ELSE rows \cup {k}
MaySave == Served(flow.save) /\ (flow.effect = "once" => rows = {})

\* The answer may be lost: the page shows an error, and the next submission starts from the
\* beginning.
Save(p) ==
  /\ At(p, "save") /\ MaySave
  /\ rows' = Saved(page[p].key)
  /\ Ends(p)
  /\ UNCHANGED <<flow, bucket, late>>

\* A request is refused or lost, the URL has expired, the API does not serve the request; the
\* object may be there or not.
Fail(p) ==
  /\ ~At(p, "idle")
  /\ Ends(p)
  /\ UNCHANGED <<flow, bucket, late, rows>>

Next == \/ \E p \in Pages : \/ \E f \in Files : Submit(p, f)
                            \/ \E k \in Keys : Ask(p, k)
                            \/ Put(p) \/ Save(p) \/ Fail(p)
        \/ \E k \in Keys : Expire(k)

Spec == Init /\ [][Next]_vars

-----------------------------------------------------------------------------
\* A key in the database names an object, although nothing but the order of the requests in the
\* handlers of the pages sees to it.
RowsNameObjects == flow.url # NoRequest => \A k \in rows : bucket[k] # NoFile
=============================================================================
