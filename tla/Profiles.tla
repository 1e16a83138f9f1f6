------------------------------- MODULE Profiles -------------------------------
(***************************************************************************)
(* Profiles and their pictures (modules/users/users.routes.ts, avatar.ts), *)
(* beside the accounts they belong to, and a browser that shows them: the  *)
(* user object of its store, the profile page's forms, and its HTTP cache, *)
(* which keeps a picture for ever under the URL it was loaded from.  A     *)
(* picture is a file on disk whose path is in the profiles row; replacing  *)
(* it takes four steps that two requests can interleave.                   *)
(***************************************************************************)
EXTENDS Accounts, Sequences

CONSTANTS
  MaxEdits,  \* how many of the requests may be for a profile
  Pictures,  \* files that are profile pictures from before
  NoFile     \* no picture, or nothing cached

\* A path is a random name: no upload gets that of a picture there was before.
ASSUME ProfilesAssumption ==
  /\ NoFile \notin Requests \union Pictures /\ Requests \intersect Pictures = {}
  /\ MaxEdits \in Nat

VARIABLES
  avatar,    \* profiles.avatarPath; a path is named after the upload that stored it
  version,   \* profiles.updatedAt, counted: every update of the row is a new instant
  uploads,   \* files under uploads/avatars
  edit,      \* what a profile request has read, and the MeDto it answers
  shown,     \* the version of each profile that the browser's user object has
  loading,   \* an image request: the URL, and the path the server has read
  cache,     \* pictures in the browser's cache, by URL
  stray      \* files no request will delete any more

profileVars == <<avatar, version, uploads, edit, shown, loading, cache, stray>>
allVars == <<accountVars, profileVars>>

-----------------------------------------------------------------------------

NoEdit == [seen |-> NoFile, dto |-> 0]
NotLoading == [who |-> Nobody, url |-> 0, path |-> NoFile]

Versions == 0..MaxEdits

edits == {r \in Requests : request[r].op \in {"avatar", "remove", "patch"}}

\* /api/users/<id>/avatar?v=<updatedAt>: what the cache keys on besides the user.
FaultyAvatarUrlFor(v) == 0
avatarUrlFor(v) == v

\* A request for a profile needs the account's access token; a path is its own upload's.
ask(p, op, step, r) ==
  /\ exists(p) /\ request[r] = Unsent /\ Cardinality(edits) < MaxEdits
  /\ request' = [request EXCEPT ![r] = Ask(op, step, p, "none", Nobody)]
  /\ UNCHANGED <<account, pending, token, minted, dropped, failures>>

next(r, op, step, to) ==
  /\ At(r, op, step) /\ To(r, to)
  /\ UNCHANGED <<account, pending, token, minted, dropped, failures>>

ProfilesInit ==
  /\ avatar \in [People -> Pictures \union {NoFile}]
  /\ \A p, q \in People : avatar[p] # NoFile => exists(p) /\ (avatar[q] = avatar[p] => q = p)
  /\ version = [p \in People |-> 0]
  /\ uploads = {avatar[p] : p \in People} \ {NoFile} /\ stray = {}
  /\ edit = [r \in Requests |-> NoEdit]
  /\ shown = [p \in People |-> 0]
  /\ loading = NotLoading
  /\ cache = [p \in People |-> [v \in Versions |-> NoFile]]

\* The row's update gives it a new updatedAt; the answer is the row as it is then.
updated(p, r) ==
  /\ version' = [version EXCEPT ![p] = @ + 1]
  /\ edit' = [edit EXCEPT ![r].dto = version[p] + 1]

-----------------------------------------------------------------------------
(* The routes *)

\* multer stores the file under a random name before the handler runs.
avatarUpload(p, r) ==
  /\ ask(p, "avatar", "asked", r)
  /\ uploads' = uploads \union {r}
  /\ UNCHANGED <<avatar, version, edit, shown, loading, cache, stray>>

remove(p, r) ==
  /\ avatar[p] # NoFile /\ ask(p, "remove", "asked", r)
  /\ UNCHANGED profileVars

\* The picture to delete is read before the row is written.
ReadExisting(r) ==
  /\ \E op \in {"avatar", "remove"} : next(r, op, "asked", "read")
  /\ edit' = [edit EXCEPT ![r].seen = avatar[request[r].who]]
  /\ UNCHANGED <<avatar, version, uploads, shown, loading, cache, stray>>

FaultySuperseded(r, new) == new
superseded(r, new) == edit[r].seen

SetAvatar(r) ==
  LET p == request[r].who
      new == IF request[r].op = "avatar" THEN r ELSE NoFile
  IN
  /\ \E op \in {"avatar", "remove"} : next(r, op, "read", "updated")
  /\ avatar' = [avatar EXCEPT ![p] = new]
  /\ updated(p, r)
  /\ stray' = IF avatar[p] \in {NoFile, edit[r].seen} THEN stray ELSE stray \union {avatar[p]}
  /\ UNCHANGED <<uploads, shown, loading, cache>>

\* Best effort, behind the answer.
FaultyDeleteAvatarFile(r) ==
  /\ \E op \in {"avatar", "remove"} : next(r, op, "updated", "answered")
  /\ UNCHANGED profileVars
deleteAvatarFile(r) ==
  LET new == avatar[request[r].who] IN
  /\ \E op \in {"avatar", "remove"} : next(r, op, "updated", "answered")
  /\ uploads' = uploads \ {superseded(r, new)}
  /\ UNCHANGED <<avatar, version, edit, shown, loading, cache, stray>>

\* PATCH /me writes the other fields of the row, and its updatedAt.
updateProfile(p, r) ==
  /\ ask(p, "patch", "answered", r)
  /\ updated(p, r)
  /\ UNCHANGED <<avatar, uploads, shown, loading, cache, stray>>

-----------------------------------------------------------------------------
(* The browser *)

\* setUser(answer): answers come back in any order, the last one stays.
setUser(r) ==
  /\ \E op \in {"avatar", "remove", "patch"} : next(r, op, "answered", "done")
  /\ shown' = [shown EXCEPT ![request[r].who] = edit[r].dto]
  /\ UNCHANGED <<avatar, version, uploads, edit, loading, cache, stray>>

\* GET /me, GET /users/<id>, or the user that a refresh answers.
getMe(p) ==
  /\ exists(p) /\ shown[p] # version[p]
  /\ shown' = [shown EXCEPT ![p] = version[p]]
  /\ UNCHANGED <<accountVars, avatar, version, uploads, edit, loading, cache, stray>>

\* The page asks for the picture at the URL it has, if the cache has nothing there.
loadImage(p) ==
  /\ loading = NotLoading /\ avatar[p] # NoFile
  /\ cache[p][avatarUrlFor(shown[p])] = NoFile
  /\ loading' = [who |-> p, url |-> avatarUrlFor(shown[p]), path |-> avatar[p]]
  /\ UNCHANGED <<accountVars, avatar, version, uploads, edit, shown, cache, stray>>

\* The server has read the path; it sends the file if it is still there, to be kept for
\* ever in both cases.
sendFile ==
  /\ loading # NotLoading
  /\ cache' = IF loading.path \in uploads
              THEN [cache EXCEPT ![loading.who][loading.url] = loading.path] ELSE cache
  /\ loading' = NotLoading
  /\ UNCHANGED <<accountVars, avatar, version, uploads, edit, shown, stray>>

\* A profile request that fails leaves its own file, and the one it was to delete.
ProfileFails(r) ==
  /\ r \in edits /\ fails(r)
  /\ stray' = stray \union
       (IF request[r].step = "updated" THEN {edit[r].seen} \ {NoFile}
        ELSE IF request[r].step = "answered" THEN {} ELSE {r} \intersect uploads)
  /\ UNCHANGED <<avatar, version, uploads, edit, shown, loading, cache>>

ProfilesNext ==
  \/ \E p \in People, r \in Requests :
       avatarUpload(p, r) \/ remove(p, r) \/ updateProfile(p, r)
  \/ \E r \in Requests :
       ReadExisting(r) \/ SetAvatar(r) \/ deleteAvatarFile(r) \/ setUser(r) \/ ProfileFails(r)
  \/ (\E p \in People : getMe(p) \/ loadImage(p)) \/ sendFile

Init == AccountsInit /\ ProfilesInit
Next == ProfilesNext \/ (AccountsNext /\ UNCHANGED profileVars)

Spec == Init /\ [][Next]_allVars

-----------------------------------------------------------------------------

ProfileTypeOK ==
  /\ avatar \in [People -> Requests \union Pictures \union {NoFile}]
  /\ version \in [People -> Versions] /\ shown \in [People -> Versions]
  /\ uploads \subseteq Requests \union Pictures /\ stray \subseteq Requests \union Pictures

\* Types, and what holds of accounts: one session for each state, a way into every
\* account, and verified when the token is used up.
Inv == AccountInv /\ ProfileTypeOK

\* A file is on its way to a profile, or from it to deletion.
handled(f) ==
  \E r \in Requests :
    \/ r = f /\ request[r].op = "avatar" /\ request[r].step \in {"asked", "read"}
    \/ edit[r].seen = f /\ request[r].step = "updated"

\* "a user who changes their picture ten times doesn't leave ten orphans on disk"
\* (users.routes.ts:53-54), and the current picture is there: uploads, removals and stops,
\* however they overlap, leave no other file than those two overlapping requests both
\* replaced or a failed one had stored.
AvatarFiles ==
  /\ \A p \in People : avatar[p] # NoFile => avatar[p] \in uploads
  /\ \A f \in uploads : f \in stray \/ handled(f) \/ \E p \in People : avatar[p] = f

\* "the URL carries a version parameter, so a cached copy can never be the wrong image"
\* (users.routes.ts:113-114): what the cache has under a profile's present URL is its
\* present picture, whichever answers and images were late.
CachedIsCurrent ==
  \A p \in People :
    avatar[p] # NoFile => cache[p][avatarUrlFor(version[p])] \in {NoFile, avatar[p]}

=============================================================================
