-------------------------- MODULE WorkspaceVersions --------------------------
(***************************************************************************)
(* src/workspace-api.ts, the routes that write one workspace: its creation,*)
(* saving a version as a draft or published, and saving or building the    *)
(* bundles that are kept in a version's meta.  CodeJobs adds the jobs that *)
(* run those bundles.                                                      *)
(*                                                                         *)
(* One action is one awaited statement, or one interactive transaction:    *)
(* the adapter of the one SQLite connection runs transactions one at a     *)
(* time, and no statement outside of them writes what they read.           *)
(*                                                                         *)
(* Abstracted: all but one owner and slug (findWorkspaceBySlug may fall    *)
(* back on a public workspace), snapshots, messages and descriptions, and  *)
(* a bundle's code, which is the number of times its entry was saved.      *)
(* External: the SQLite tables and their unique keys.                      *)
(***************************************************************************)
EXTENDS Integers, FiniteSets

CONSTANTS
  Requests,    \* HTTP requests
  ClientIds,   \* values of clientRequestId
  Entries,     \* entry paths of bundles
  Base,        \* Base[e]: entry path e without a known extension
  MaxVersion,  \* bound: versions of the workspace
  None

ASSUME MaxVersionAssumption == MaxVersion \in Nat \ {0}
ASSUME BaseAssumption == DOMAIN Base = Entries
ASSUME NoneAssumption == None \notin ClientIds \cup (0..MaxVersion)

VARIABLES
  current,   \* currentVersion of the workspace row, or None without a row
  rows,      \* rows[v]: the row of version v, see Row, or None
  replaced,  \* client ids that a draft has replaced in a row (history)
  pc,        \* pc[r]: the next statement of request r
  asked      \* asked[r]: what r asks for, see Ask, or None

rowvars == <<current, rows, replaced>>
reqvars == <<pc, asked>>

Versions == 1..MaxVersion
Found == current # None  \* findWorkspaceBySlug
Latest == Cardinality({v \in Versions : rows[v] # None})

(* born is the client id the row was created with (history).               *)
Row == [client : ClientIds \cup {None}, born : ClientIds \cup {None},
        bundles : [Entries -> Nat]]
NewRow(c) == [client |-> c, born |-> c, bundles |-> [e \in Entries |-> 0]]

ASSUME NoRowAssumption == None \notin Row

SaveAsk == [route : {"draft"}, target : Versions \cup {None}, client : ClientIds \cup {None}]
           \cup [route : {"publish"}, client : ClientIds \cup {None}]
BundleAsk == [route : {"bundle", "build"}, version : Versions, entry : Entries]
CreateAsk == [route : {"workspace"}, initial : BOOLEAN]
Ask == SaveAsk \cup BundleAsk \cup CreateAsk

(* The version rows and workspace a server may start with.                 *)
InitVersions ==
  /\ \/ current = None /\ rows = [v \in Versions |-> None]
     \/ /\ current = 1
        /\ \E b \in [Entries -> 0..1] :
             rows = [v \in Versions |-> IF v = 1 THEN [NewRow(None) EXCEPT !.bundles = b]
                                        ELSE None]
  /\ replaced = {}
  /\ pc = [r \in Requests |-> "new"]
  /\ asked = [r \in Requests |-> None]

(* The next statement of r.  An answer, which is not kept, ends it.         *)
Ended == {"ended", "collision"}
Goto(r, where) ==
  /\ pc' = [pc EXCEPT ![r] = where]
  /\ asked' = IF where \in Ended THEN [asked EXCEPT ![r] = None] ELSE asked

Arrives(r, a, where) ==
  /\ pc[r] = "new"
  /\ pc' = [pc EXCEPT ![r] = where]
  /\ asked' = IF where \in Ended THEN asked ELSE [asked EXCEPT ![r] = a]
  /\ UNCHANGED rowvars

-----------------------------------------------------------------------------
(* createWorkspace                                                         *)

CreateWorkspace(r, a) ==
  /\ a \in CreateAsk
  /\ Arrives(r, a, IF current = None THEN "create" ELSE "ended")

(* The transaction; the unique key refuses a second workspace.             *)
CreateTransaction(r) ==
  /\ pc[r] = "create" /\ asked[r].route = "workspace"
  /\ IF current # None
     THEN Goto(r, "ended") /\ UNCHANGED rowvars
     ELSE /\ current' = IF asked[r].initial THEN 1 ELSE 0
          /\ rows' = IF asked[r].initial THEN [rows EXCEPT ![1] = NewRow(None)] ELSE rows
          /\ Goto(r, "ended")
          /\ UNCHANGED replaced

-----------------------------------------------------------------------------
(* saveWorkspaceVersion                                                    *)

LookUp(a) == IF a.client = None THEN "save" ELSE "lookup"

(* findWorkspaceBySlug                                                     *)
Save(r, a) ==
  /\ a \in SaveAsk
  /\ Arrives(r, a, IF Found THEN LookUp(a) ELSE "create")

(* A missing workspace is created, unless another request did so first.    *)
SaveCreates(r) ==
  /\ pc[r] = "create" /\ asked[r].route \in {"draft", "publish"}
  /\ IF current # None
     THEN Goto(r, "ended") /\ UNCHANGED current
     ELSE Goto(r, LookUp(asked[r])) /\ current' = 0
  /\ UNCHANGED <<rows, replaced>>

Holders(c) == {v \in Versions : rows[v] # None /\ rows[v].client = c}
Taken(c, v) == c # None /\ Holders(c) \ {v} # {}

(* A clientRequestId that is in a row is answered with that row.           *)
LookUpClient(r) ==
  /\ pc[r] = "lookup"
  /\ Goto(r, IF Holders(asked[r].client) # {} THEN "ended" ELSE "save")
  /\ UNCHANGED rowvars

(* The row a draft is saved to: the one asked for, the current one, or the *)
(* latest; 1 when there is none.                                           *)
\* Mistake: a target version that does not exist is created.
DraftAtTarget(a) ==
  IF a.target # None THEN a.target ELSE IF current > 0 THEN current ELSE 1

DraftVersion(a) ==
  LET requested == IF a.target # None THEN a.target ELSE current
  IN  IF requested \in Versions /\ rows[requested] # None THEN requested
      ELSE IF Latest > 0 THEN Latest ELSE 1

(* update with the client id, which stays if it is undefined; meta keeps   *)
(* its bundles.                                                            *)
\* Mistake: the meta of a draft starts from {} like that of a new row.
Redraft(row, c) ==
  [NewRow(None) EXCEPT !.client = IF c = None THEN row.client ELSE c, !.born = row.born]

Drafted(row, c) == [row EXCEPT !.client = IF c = None THEN @ ELSE c]

DraftTransaction(r) ==
  LET c == asked[r].client
      v == DraftVersion(asked[r])
  IN  /\ pc[r] = "save" /\ asked[r].route = "draft"
      /\ IF Taken(c, v)
         THEN Goto(r, "ended") /\ UNCHANGED rowvars
         ELSE /\ rows' = [rows EXCEPT ![v] = IF @ = None THEN NewRow(c) ELSE Drafted(@, c)]
              /\ replaced' = IF rows[v] # None /\ c # None
                             THEN replaced \cup ({rows[v].client} \ {None, c}) ELSE replaced
              /\ current' = v
              /\ Goto(r, "ended")

(* The number of the next published version.                               *)
\* Mistake: currentVersion is taken for the highest version.
AfterCurrent == current + 1

NextVersion == (IF current > Latest THEN current ELSE Latest) + 1

(* The unique keys refuse a version that exists and a client id in use.    *)
\* Mistake: the schema has no unique key over the client id.
PublishTwice(r) ==
  LET c == asked[r].client
      v == NextVersion
  IN  /\ pc[r] = "save" /\ asked[r].route = "publish"
      /\ v \in Versions
      /\ IF rows[v] # None
         THEN Goto(r, "collision") /\ UNCHANGED rowvars
         ELSE /\ rows' = [rows EXCEPT ![v] = NewRow(c)]
              /\ current' = v
              /\ Goto(r, "ended")
              /\ UNCHANGED replaced

PublishTransaction(r) ==
  LET c == asked[r].client
      v == NextVersion
  IN  /\ pc[r] = "save" /\ asked[r].route = "publish"
      /\ v \in Versions
      /\ IF rows[v] # None \/ Taken(c, v)
         THEN Goto(r, IF rows[v] # None THEN "collision" ELSE "ended") /\ UNCHANGED rowvars
         ELSE /\ rows' = [rows EXCEPT ![v] = NewRow(c)]
              /\ current' = v
              /\ Goto(r, "ended")
              /\ UNCHANGED replaced

-----------------------------------------------------------------------------
(* saveBundle, buildAndSaveBundle                                          *)

(* findWorkspaceBySlug; a build also looks for the version.                *)
Bundle(r, a) ==
  /\ a \in BundleAsk
  /\ Arrives(r, a, IF ~Found THEN "ended"
                   ELSE IF a.route = "bundle" THEN "persist" ELSE "version")

FindVersion(r) ==
  /\ pc[r] = "version"
  /\ Goto(r, IF rows[asked[r].version] = None THEN "ended" ELSE "building")
  /\ UNCHANGED rowvars

Build(r) ==
  /\ pc[r] = "building"
  /\ \E where \in {"persist", "ended"} : Goto(r, where)
  /\ UNCHANGED rowvars

(* persistBundle, one transaction over the version's meta.                 *)
PersistBundle(r) ==
  LET v == asked[r].version
  IN  /\ pc[r] = "persist"
      /\ IF rows[v] = None
         THEN Goto(r, "ended") /\ UNCHANGED rows
         ELSE /\ rows' = [rows EXCEPT ![v].bundles[asked[r].entry] = @ + 1]
              /\ Goto(r, "ended")
      /\ UNCHANGED <<current, replaced>>

(* resolveBundleFromMeta: the entry itself, one that differs only in its   *)
(* extension, or the only one there is.  The order of the entries is not   *)
(* kept.                                                                   *)
Resolve(bundles, requested) ==
  LET stored == {e \in Entries : bundles[e] > 0}
      alike == {e \in stored : Base[e] = Base[requested]}
  IN  IF requested \in stored THEN {requested}
      ELSE IF alike # {} THEN alike
      ELSE IF Cardinality(stored) = 1 THEN stored ELSE {}

-----------------------------------------------------------------------------

VersionsStep(r) ==
  \/ \E a \in CreateAsk : CreateWorkspace(r, a)
  \/ \E a \in SaveAsk : Save(r, a)
  \/ \E a \in BundleAsk : Bundle(r, a)
  \/ CreateTransaction(r) \/ SaveCreates(r) \/ LookUpClient(r)
  \/ DraftTransaction(r) \/ PublishTransaction(r)
  \/ FindVersion(r) \/ Build(r) \/ PersistBundle(r)

-----------------------------------------------------------------------------
(* Properties                                                              *)

(* The versions of a workspace are 1 to the latest without a gap, none is  *)
(* there before the workspace, and currentVersion names one of them, or is *)
(* 0 while there is none.  No publish finds its number taken, whatever     *)
(* other publishes have committed since its request arrived and whichever  *)
(* old version drafts have made the current one (workspace-api.ts:288,     *)
(* :355).                                                                  *)
VersionsContiguous ==
  /\ current = None => Latest = 0
  /\ \A v \in Versions : (rows[v] # None) <=> v <= Latest
  /\ current # None => current <= Latest /\ (current = 0 => Latest = 0)
  /\ \A r \in Requests : pc[r] # "collision"

(* Requests with one clientRequestId, concurrent or retried, create one    *)
(* version, unless a draft has meanwhile put its own id in that row: only  *)
(* then a retried publish publishes again (workspace-api.ts:251, :300).    *)
OncePerClientId ==
  \A v, w \in Versions :
    rows[v] # None /\ rows[w] # None /\ rows[v].born # None /\ rows[v].born = rows[w].born
      => v = w \/ rows[v].born \in replaced
=============================================================================
