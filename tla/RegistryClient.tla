---------------------------- MODULE RegistryClient ----------------------------
(***************************************************************************)
(* ArtifactoryRegistryClient under the loop of cascade step 3: list the    *)
(* automation's folder, delete every entry, list again and vouch for an    *)
(* empty folder.  Artifactory, or whatever answers in its place, may give  *)
(* any answer; nothing but a well-formed listing of this very folder or a  *)
(* 404 counts.                                                             *)
(***************************************************************************)
EXTENDS Naturals, FiniteSets

CONSTANTS
    Names,          \* strings a listing may hold after the "/" of a child's uri
    CharsOf,        \* per name: the characters in it, by the classes below
    Dot, DotDot,    \* the names "." and ".."
    Entries         \* names of images and build artifacts that CI pushes

\* What [A-Za-z0-9_.:+-] admits, and the characters that mean something else
\* in a URL path.
SegmentChars == {"letter", "digit", "_", ".", ":", "+", "-"}
Chars == SegmentChars \cup {"/", "%", "other"}

\* An image tag or digest is made of segment characters and is no dot segment.
ASSUME RegistryAssumption ==
    /\ CharsOf \in [Names -> SUBSET Chars]
    /\ {Dot, DotDot} \subseteq Names
    /\ CharsOf[Dot] = {"."} /\ CharsOf[DotDot] = {"."}
    /\ Entries \subseteq Names \ {Dot, DotDot}
    /\ \A e \in Entries : CharsOf[e] # {} /\ CharsOf[e] \subseteq SegmentChars

VARIABLES
    folder,     \* the entries under the automation's own path
    shared,     \* whether everything outside it is still there
    reclaim     \* the step-3 loop: its place and the entries still to delete

registryVars == <<folder, shared, reclaim>>

\* An HTTP answer to a GET: its status, whether the body is JSON of bounded
\* size, whether it names this repository and path, and the children it lists.
Answer(status, json, here, children) ==
    [status |-> status, json |-> json, here |-> here, children |-> children]

Absent == Answer(404, FALSE, FALSE, {})

\* What Artifactory says when it answers the question.
TrueAnswers ==
    {Answer(200, TRUE, TRUE, folder)}
        \cup IF folder = {} THEN {Absent} ELSE {}

\* What may arrive instead: an error or a redirect, another success status, a
\* body that is no listing or too large, another folder's listing, a listing
\* with a name that nobody pushed.
OtherAnswers ==
    {Answer(500, FALSE, FALSE, {}), Answer(302, FALSE, FALSE, {}),
     Answer(204, FALSE, FALSE, {}), Answer(200, FALSE, FALSE, {}),
     Answer(200, TRUE, FALSE, {})}
        \cup {Answer(200, TRUE, TRUE, folder \cup {name}) : name \in Names \ Entries}

\* A slip: the character class alone, which "." and ".." match.
valid_segment_regex(value) ==
    CharsOf[value] # {} /\ CharsOf[value] \subseteq SegmentChars

valid_segment(value) ==
    /\ value \notin {Dot, DotDot}
    /\ CharsOf[value] # {} /\ CharsOf[value] \subseteq SegmentChars

Raised == [raised |-> TRUE, entries |-> {}]
Listed(entries) == [raised |-> FALSE, entries |-> entries]

\* A slip: a body that is no listing of this folder passes for an empty one.
list_image_entries_lenient(answer) ==
    IF answer.status = 200 /\ answer.json /\ answer.here
       /\ \A c \in answer.children : valid_segment(c)
    THEN Listed(answer.children)
    ELSE IF answer.status \in {200, 404} THEN Listed({}) ELSE Raised

list_image_entries(answer) ==
    CASE answer.status = 404 -> Listed({})
      [] /\ answer.status = 200 /\ answer.json /\ answer.here
         /\ \A c \in answer.children : valid_segment(c)
            -> Listed(answer.children)
      [] OTHER -> Raised

----------------------------------------------------------------------------
RegistryInit ==
    /\ folder = {}
    /\ shared = TRUE
    /\ reclaim = [pc |-> "idle", entries |-> {}]

ReclaimStates == [pc : {"idle", "listing", "deleting", "relisting", "emptied",
                         "stopped"},
                  entries : SUBSET Names]

\* A registry error stops the attempt; the next one starts over.
Stopped == [pc |-> "stopped", entries |-> {}]

StartReclaim ==
    /\ reclaim.pc \in {"idle", "stopped"}
    /\ reclaim' = [reclaim EXCEPT !.pc = "listing"]
    /\ UNCHANGED <<folder, shared>>

ListEntries(answer) ==
    /\ reclaim.pc = "listing"
    /\ LET listing == list_image_entries(answer) IN
       reclaim' = IF listing.raised THEN Stopped
                  ELSE [pc |-> "deleting", entries |-> listing.entries]
    /\ UNCHANGED <<folder, shared>>

\* Artifactory removes the item at a path and all below it (external), once the
\* path is split at "/", decoded and its dot segments are resolved: a name may
\* lead to a child, to the folder itself or out of it.
Removes(name) ==
    IF name = DotDot \/ CharsOf[name] \cap {"/", "%"} # {}
    THEN folder' = {} /\ shared' = FALSE
    ELSE IF name = Dot \/ CharsOf[name] = {}
    THEN folder' = {} /\ UNCHANGED shared
    ELSE folder' = folder \ {name} /\ UNCHANGED shared

\* 204 and 404 go on; any other answer stops, and the item may be gone.  The
\* name is checked here once more.
delete_image(entry, status) ==
    /\ reclaim.pc = "deleting"
    /\ entry \in reclaim.entries
    /\ valid_segment(entry)
    /\ \/ status = 204 /\ Removes(entry)
       \/ status = 404 /\ entry \notin folder /\ UNCHANGED <<folder, shared>>
       \/ status = 500 /\ (Removes(entry) \/ UNCHANGED <<folder, shared>>)
    /\ reclaim' = IF status \in {204, 404}
                  THEN [reclaim EXCEPT !.entries = @ \ {entry}]
                  ELSE Stopped

AllDeleted ==
    /\ reclaim.pc = "deleting"
    /\ reclaim.entries = {}
    /\ reclaim' = [reclaim EXCEPT !.pc = "relisting"]
    /\ UNCHANGED <<folder, shared>>

RelistEntries(answer) ==
    /\ reclaim.pc = "relisting"
    /\ LET listing == list_image_entries(answer) IN
       reclaim' = IF listing.raised \/ listing.entries # {} THEN Stopped
                  ELSE [pc |-> "emptied", entries |-> {}]
    /\ UNCHANGED <<folder, shared>>

\* A pipeline pushes an image (external).
Push(entry) ==
    /\ entry \notin folder
    /\ folder' = folder \cup {entry}
    /\ UNCHANGED <<shared, reclaim>>

\* The client alone; ScriptPipeline says when a pipeline pushes.
RegistryNext ==
    \/ StartReclaim
    \/ \E answer \in TrueAnswers \cup OtherAnswers :
          ListEntries(answer) \/ RelistEntries(answer)
    \/ \E entry \in Names, status \in {204, 404, 500} : delete_image(entry, status)
    \/ AllDeleted
    \/ \E entry \in Entries : Push(entry)

RegistrySpec == RegistryInit /\ [][RegistryNext]_registryVars

RegistryTypeOK ==
    /\ folder \subseteq Entries
    /\ shared \in BOOLEAN
    /\ reclaim \in ReclaimStates

\* Step 3 vouches for an empty folder only when it is empty at that moment: no
\* error page, foreign listing or truncated body passes for "nothing left".
EmptiedMeansEmpty ==
    [][reclaim.pc = "relisting" /\ reclaim'.pc = "emptied" => folder = {}]_registryVars

\* A step of the loop takes away at most one image, one that its listing named,
\* and nothing outside the automation's own folder: not the images pushed since
\* the listing, not another automation's, not the golden base, whatever names
\* an answer holds and however the path of the DELETE is resolved.
DeletesOnlyListed ==
    [][/\ shared' = shared
       /\ \E e \in Names : folder \ folder' \subseteq {e} \cap reclaim.entries]_registryVars
==============================================================================
