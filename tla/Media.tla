-------------------------------- MODULE Media --------------------------------
(***************************************************************************)
(* media-service behind the gateway: MediaObject rows, the objects in S3   *)
(* and the media.uploaded event.  A request that the gateway lets through  *)
(* is one call of `call'; when it has been answered its slot is free for   *)
(* the next, so Request bounds the requests in flight and not their number.*)
(* A handler is cut at its awaited calls, each of which may fail (Abort).  *)
(* Requests that are refused, by a guard, a validation or a test at the    *)
(* start of the handler, change nothing and are left out, as is the list   *)
(* of one's media, which only reads.                                       *)
(*                                                                         *)
(* The client PUTs a file with the presigned URL, to S3 itself, until the  *)
(* URL expires.  uploadPhoto stores under users/<user>/ and writes no row. *)
(***************************************************************************)
EXTENDS Gateway, FiniteSets

CONSTANTS
  Request,  \* requests in flight
  Uuid,     \* uuids of media objects and photos
  UrlTtl    \* PRESIGNED_URL_EXPIRES, in ticks

ASSUME MediaAssumption == UrlTtl \in Nat

Row  == [user : User, status : {"pending", "active", "deleted"}]
Key  == [photo : BOOLEAN, user : User, id : Uuid]
Url  == [key : Key, until : Nat]
Call == [at : {"create", "answerUpload", "announce", "answerConfirm", "remove", "mark", "removePhoto"},
         bearer : User \union {null}, user : User, key : Key, until : Nat,
         heard : BOOLEAN, made : SUBSET Uuid]

ASSUME MediaNullAssumption == null \notin Row \union Url \union Call

VARIABLES
  row,        \* row[i]: the MediaObject with id i, or null
  object,     \* keys of the objects in S3
  url,        \* url[i]: the presigned URL a client has for i and can still use, or null
  announced,  \* <<media, user>> of the media.uploaded announced
  call,       \* call[r]: the locals of a request in flight, or null
  removal     \* history: "none", or whether a PUT came "after" the last removal of i, or not

stored == <<row, object, url>>
vars   == <<gateway, stored, announced, call, removal>>

TypeOK ==
  /\ GatewayTypeOK
  /\ row \in [Uuid -> Row \union {null}]
  /\ object \subseteq Key
  /\ url \in [Uuid -> Url \union {null}]
  /\ announced \subseteq Uuid
  /\ call \in [Request -> Call \union {null}]
  /\ removal \in [Uuid -> {"none", "removed", "after"}]

Init ==
  /\ GatewayInit
  /\ row = [i \in Uuid |-> null]
  /\ object = {}
  /\ url = [i \in Uuid |-> null]
  /\ announced = {}
  /\ call = [r \in Request |-> null]
  /\ removal = [i \in Uuid |-> "none"]

MediaKey(u, i) == [photo |-> FALSE, user |-> u, id |-> i]
PhotoKey(u, i) == [photo |-> TRUE, user |-> u, id |-> i]

Fresh(i) ==
  /\ row[i] = null
  /\ \A k \in object : k.id # i
  /\ \A r \in Request : call[r] # null => call[r].key.id # i

-----------------------------------------------------------------------------
(* Through the gateway and back *)

(* The users that a request with this token may act for when the gateway   *)
(* forwards it: whatever x-user-id the client claims, one.                 *)
ActsFor(bearer) ==
  IF Admits("media", bearer)
  THEN {UserHeader("media", bearer, claim) : claim \in User \union {null}} \ {null}
  ELSE {}

Open(r, step, bearer, u, k, until) ==
  /\ call[r] = null
  /\ call' = [call EXCEPT ![r] =
       [at |-> step, bearer |-> bearer, user |-> u, key |-> k, until |-> until,
        heard |-> TRUE, made |-> {}]]
  /\ UNCHANGED gateway

At(r, step) == call[r] # null /\ call[r].at = step

GoTo(r, step) == call' = [call EXCEPT ![r].at = step] /\ UNCHANGED gateway

End(r) == call' = [call EXCEPT ![r] = null] /\ UNCHANGED gateway

(* mutant: the request is sent again *)
UnavailableRetried(r) ==
  /\ At(r, "answerUpload")
  /\ \E i \in Uuid :
       /\ Fresh(i)
       /\ call' = [call EXCEPT ![r].at = "create", ![r].key.id = i]
  /\ UNCHANGED <<gateway, stored, announced, removal>>

(* The gateway's fetch fails and the client is told 503; whatever the      *)
(* service has begun it goes on with.  Only what an upload is answered     *)
(* matters here.                                                           *)
Unavailable(r) ==
  /\ At(r, "create") \/ At(r, "answerUpload")
  /\ call' = [call EXCEPT ![r].heard = FALSE]
  /\ UNCHANGED <<gateway, stored, announced, removal>>

(* media-service dies, or the next call rejects. *)
Abort(r) ==
  /\ call[r] # null
  /\ End(r)
  /\ UNCHANGED <<stored, announced, removal>>

-----------------------------------------------------------------------------
(* requestUpload *)

(* MIME type and size are fine: the URL is signed. *)
RequestUpload(r, bearer, u, i) ==
  /\ CarriesBody("POST") /\ Fresh(i)
  /\ Open(r, "create", bearer, u, MediaKey(u, i), now + UrlTtl)
  /\ UNCHANGED <<stored, announced, removal>>

(* mutant: a failing insert is only logged *)
CreateRowBestEffort(r) ==
  /\ At(r, "create")
  /\ row' \in {row, [row EXCEPT ![call[r].key.id] = [user |-> call[r].user, status |-> "pending"]]}
  /\ GoTo(r, "answerUpload")
  /\ UNCHANGED <<object, url, announced, removal>>

CreateRow(r) ==
  /\ At(r, "create")
  /\ row' = [row EXCEPT ![call[r].key.id] = [user |-> call[r].user, status |-> "pending"]]
  /\ call' = [call EXCEPT ![r].at = "answerUpload", ![r].made = @ \union {call[r].key.id}]
  /\ UNCHANGED <<gateway, object, url, announced, removal>>

(* mutant: expiresIn left out of the signature *)
AnswerUploadForever(r) ==
  /\ At(r, "answerUpload")
  /\ url' = IF call[r].heard
            THEN [url EXCEPT ![call[r].key.id] = [key |-> call[r].key, until |-> null]]
            ELSE url
  /\ End(r)
  /\ UNCHANGED <<row, object, announced, removal>>

(* The client gets the URL, unless the gateway has given up or it took     *)
(* longer than the URL lives.                                              *)
AnswerUpload(r) ==
  /\ At(r, "answerUpload")
  /\ url' = IF call[r].heard /\ now < call[r].until
            THEN [url EXCEPT ![call[r].key.id] = [key |-> call[r].key, until |-> call[r].until]]
            ELSE url
  /\ End(r)
  /\ UNCHANGED <<row, object, announced, removal>>

(* The client PUTs the file.  S3 looks at the URL, not at the row. *)
Put(i) ==
  /\ url[i] # null
  /\ object' = object \union {url[i].key}
  /\ removal' = [removal EXCEPT ![i] = IF @ = "none" THEN @ ELSE "after"]
  /\ UNCHANGED <<gateway, row, url, announced, call>>

-----------------------------------------------------------------------------
(* confirmUpload *)

(* An update by id: it looks neither at the status nor at the owner.       *)
ConfirmUpload(r, bearer, u, i) ==
  /\ row[i] # null
  /\ row' = [row EXCEPT ![i].status = "active"]
  /\ Open(r, "announce", bearer, u, MediaKey(u, i), 0)
  /\ UNCHANGED <<object, url, announced, removal>>

(* mutant: a publish that fails is only logged *)
AnnounceBestEffort(r) ==
  /\ At(r, "announce")
  /\ announced' \in {announced, announced \union {call[r].key.id}}
  /\ GoTo(r, "answerConfirm")
  /\ UNCHANGED <<stored, removal>>

(* The event names the user who confirms.  Without a stream for            *)
(* media.uploaded, which no service creates, the publish rejects (Abort).  *)
Announce(r) ==
  /\ At(r, "announce")
  /\ announced' = announced \union {call[r].key.id}
  /\ GoTo(r, "answerConfirm")
  /\ UNCHANGED <<stored, removal>>

AnswerConfirm(r) ==
  /\ At(r, "answerConfirm")
  /\ End(r)
  /\ UNCHANGED <<stored, announced, removal>>

-----------------------------------------------------------------------------
(* deleteMedia *)

(* findFirst by id and owner, whatever the status: a deletion that stopped *)
(* half-way can be tried again.                                            *)
DeleteMedia(r, bearer, u, i) ==
  /\ row[i] # null /\ row[i].user = u
  /\ Open(r, "remove", bearer, u, MediaKey(row[i].user, i), 0)
  /\ UNCHANGED <<stored, announced, removal>>

(* mutant: errors of S3 are swallowed *)
RemoveObjectBestEffort(r) ==
  /\ At(r, "remove")
  /\ \/ /\ object' = object \ {call[r].key}
        /\ removal' = [removal EXCEPT ![call[r].key.id] = "removed"]
     \/ UNCHANGED <<object, removal>>
  /\ GoTo(r, "mark")
  /\ UNCHANGED <<row, url, announced>>

RemoveObject(r) ==
  /\ At(r, "remove")
  /\ object' = object \ {call[r].key}
  /\ removal' = [removal EXCEPT ![call[r].key.id] = "removed"]
  /\ GoTo(r, "mark")
  /\ UNCHANGED <<row, url, announced>>

MarkDeleted(r) ==
  /\ At(r, "mark")
  /\ row' = [row EXCEPT ![call[r].key.id].status = "deleted"]
  /\ End(r)
  /\ UNCHANGED <<object, url, announced, removal>>

-----------------------------------------------------------------------------
(* Photos *)

(* uploadPhoto: the file is an allowed image within the limit. *)
UploadPhoto(u, i) ==
  /\ CarriesBody("POST") /\ Fresh(i)
  /\ object' = object \union {PhotoKey(u, i)}
  /\ UNCHANGED <<gateway, row, url, announced, call, removal>>

(* deletePhoto: any key that starts with users/<user>/. *)
DeletePhoto(r, bearer, u, k) ==
  /\ k.photo /\ k.user = u
  /\ Open(r, "removePhoto", bearer, u, k, 0)
  /\ UNCHANGED <<stored, announced, removal>>

RemovePhoto(r) ==
  /\ At(r, "removePhoto")
  /\ object' = object \ {call[r].key}
  /\ End(r)
  /\ UNCHANGED <<row, url, announced, removal>>

-----------------------------------------------------------------------------
(* Time passes; URLs expire. *)
Clock ==
  /\ Tick
  /\ url' = [i \in Uuid |-> IF url[i] # null /\ url[i].until <= now' THEN null ELSE url[i]]
  /\ UNCHANGED <<row, object, announced, call, removal>>

Arrive(r) ==
  \E bearer \in User \union {null} : \E u \in ActsFor(bearer), i \in Uuid :
    \/ RequestUpload(r, bearer, u, i) \/ ConfirmUpload(r, bearer, u, i)
    \/ DeleteMedia(r, bearer, u, i) \/ UploadPhoto(u, i)
    \/ \E k \in object : DeletePhoto(r, bearer, u, k)

Proceed(r) ==
  \/ CreateRow(r) \/ AnswerUpload(r)
  \/ Announce(r) \/ AnswerConfirm(r)
  \/ RemoveObject(r) \/ MarkDeleted(r) \/ RemovePhoto(r)

Next ==
  \/ \E r \in Request : Arrive(r) \/ Proceed(r) \/ Unavailable(r) \/ Abort(r)
  \/ \E i \in Uuid : Put(i)
  \/ Clock
  \/ Tokens /\ UNCHANGED <<stored, announced, call, removal>>

Spec == Init /\ [][Next]_vars

-----------------------------------------------------------------------------
(* Properties *)

(* Whatever fails while an upload is being requested, nothing can be put   *)
(* into the bucket that no row knows of: a client has a URL only once the  *)
(* row is stored, and rows keep their owner.                               *)
ObjectHasRow ==
  \A k \in object : ~k.photo => row[k.id] # null /\ row[k.id].user = k.user

(* A row says deleted only after its object was removed, through crashes   *)
(* between the two, repeated deletions and confirmations in between: when  *)
(* such a row has an object, a client PUT it after the removal.            *)
DeletedObjectIsGone ==
  \A i \in Uuid :
    /\ row[i] # null /\ row[i].status = "deleted"
    /\ MediaKey(row[i].user, i) \in object
    => removal[i] = "after"

(* A request of a client makes one row at most, also when its answer is    *)
(* lost between the service and the gateway.                               *)
OneRowPerRequest == \A r \in Request : call[r] # null => Cardinality(call[r].made) <= 1

(* A confirmation is answered with 201 only when its event is published,   *)
(* and an event tells of a row that is no longer pending.                  *)
ConfirmedIsAnnounced ==
  /\ \A r \in Request :
       At(r, "answerConfirm") => call[r].key.id \in announced
  /\ \A i \in announced : row[i] # null /\ row[i].status # "pending"

(* Only the owner's token removes: whatever x-user-id a client sends, an   *)
(* object leaves the bucket, and a row becomes deleted, only in a request  *)
(* that came with a token of the user it belongs to.                       *)
OnlyOwnersRemove ==
  [][/\ \A k \in object \ object' : \E r \in Request : call[r] # null /\ call[r].bearer = k.user
     /\ \A i \in Uuid :
          row'[i] # row[i] /\ row'[i].status = "deleted" =>
            \E r \in Request : call[r] # null /\ call[r].bearer = row[i].user]_vars

(* auth.controller.ts:129, the access token remains valid until its TTL    *)
(* expires: but no longer.  A request is let in for a user whose account is*)
(* deleted and logged out only for one lifetime of a token after that.     *)
ClosedIsOver ==
  [][\A r \in Request :
       call[r] = null /\ call'[r] # null /\ closed[call'[r].user] # null =>
         now < closed[call'[r].user] + AccessTtl]_vars
=============================================================================
