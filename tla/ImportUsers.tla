---------------------------- MODULE ImportUsers -----------------------------
(***************************************************************************)
(* The modal that makes users of the Jira accounts of a project and links  *)
(* them to it (AdminConsole.tsx, ImportUsersModal).  Its effects run in    *)
(* turn whenever what they depend on changed; an action of the modal is a  *)
(* change together with the effects it leads to.                           *)
(*                                                                         *)
(* Lists of candidates are named by the project they were loaded for.      *)
(***************************************************************************)
EXTENDS People

CONSTANT MaxPicks  \* bound: what is chosen in the modal in one behaviour

ASSUME ImportAssumption == MaxPicks \in Nat

VARIABLES
  modal,   \* the state of the modal
  cache,   \* assignableCache: per project, the list kept for it
  import,  \* a run of handleImport, with the values it was submitted with
  rowless, \* history: an account was submitted that has no row in the modal
  undone   \* history: accounts the import had linked, whose link somebody else changed

console == <<modal, cache, import, rowless, undone>>

NoModal ==
  [open |-> FALSE, project |-> None, listed |-> None, rowsOf |-> None, selected |-> {},
   options |-> None, loading |-> None, picks |-> 0]
NoImport == [project |-> None, asked |-> {}, todo |-> {}, created |-> None, errors |-> FALSE]

ConsoleInit ==
  /\ modal = NoModal /\ cache = [p \in Projects |-> None]
  /\ import = NoImport /\ rowless = FALSE /\ undone = {}

Candidates(list) == IF list = None THEN {} ELSE Assignable[list]

(* A list that has come to be shown gets rows and is selected; one that    *)
(* was shown before has lost both.                                         *)
Listing(m, list) ==
  IF list # m.listed
  THEN [m EXCEPT !.listed = list, !.rowsOf = list, !.selected = Candidates(list)]
  ELSE [m EXCEPT !.rowsOf = None, !.selected = {}]

(* The effects of a choice of project: the project's list is taken from    *)
(* the cache or asked for, and the last answer, whose ever it is, is shown *)
(* and kept under the project.                                             *)
Choose(m, p) ==
  /\ cache' = IF m.options = None THEN cache ELSE [cache EXCEPT ![p] = m.options]
  /\ modal' = LET shown == IF m.options # None THEN m.options ELSE cache[p]
                  n == [Listing(m, shown) EXCEPT !.project = p]
              IN IF cache[p] # None THEN n ELSE [n EXCEPT !.options = None, !.loading = p]

MayPick == modal.picks < MaxPicks

OpenModal(p) ==
  /\ MayPick /\ ~modal.open /\ Choose([modal EXCEPT !.open = TRUE, !.picks = @ + 1], p)
  /\ UNCHANGED <<import, rowless, undone>> /\ UNCHANGED server

SelectProject(p) ==
  /\ MayPick /\ modal.open /\ p # modal.project /\ Choose([modal EXCEPT !.picks = @ + 1], p)
  /\ UNCHANGED <<import, rowless, undone>> /\ UNCHANGED server

(* The button that refreshes the list drops it from the cache, and with it *)
(* rows and selection; an answer the library has kept may stay in place.   *)
RefreshList ==
  /\ MayPick /\ modal.open
  /\ \E kept \in {None, modal.options} :
       modal' = [modal EXCEPT !.listed = None, !.rowsOf = None, !.selected = {},
                              !.options = kept, !.loading = modal.project, !.picks = @ + 1]
  /\ cache' = [cache EXCEPT ![modal.project] = None]
  /\ UNCHANGED <<import, rowless, undone>> /\ UNCHANGED server

(* An answer that is the one already there has no effect.                  *)
OptionsArrive ==
  /\ modal.loading # None
  /\ LET m == [modal EXCEPT !.options = modal.loading, !.loading = None]
     IN IF m.open /\ m.options # modal.options
        THEN /\ modal' = Listing([m EXCEPT !.listed = None], m.options)
             /\ cache' = [cache EXCEPT ![m.project] = m.options]
        ELSE modal' = m /\ UNCHANGED cache
  /\ UNCHANGED <<import, rowless, undone>> /\ UNCHANGED server

OptionsFail ==
  /\ modal.loading # None
  /\ modal' = [modal EXCEPT !.loading = None]
  /\ UNCHANGED <<cache, import, rowless, undone>> /\ UNCHANGED server

(* One account, or with the box of the header all that are listed.         *)
ToggleSelection ==
  /\ MayPick /\ modal.open /\ modal.loading = None
  /\ \E s \in {modal.selected \cup Candidates(modal.listed)}
              \cup {modal.selected \ {a} : a \in Candidates(modal.rowsOf)} :
       s # modal.selected /\ modal' = [modal EXCEPT !.selected = s, !.picks = @ + 1]
  /\ UNCHANGED <<cache, import, rowless, undone>> /\ UNCHANGED server

Closed(m) == [NoModal EXCEPT !.options = m.options, !.loading = m.loading, !.picks = m.picks]

CloseModal ==
  /\ modal.open /\ modal' = Closed(modal)
  /\ UNCHANGED <<cache, import, rowless, undone>> /\ UNCHANGED server

-----------------------------------------------------------------------------
(* handleImport: one account after the other is made a user and linked *)

HandleImport ==
  /\ modal.open /\ import = NoImport /\ modal.selected # {}
  /\ import' = [NoImport EXCEPT !.project = modal.project, !.asked = modal.selected,
                                !.todo = modal.selected \cap Candidates(modal.rowsOf)]
  /\ rowless' = (rowless \/ ~(modal.selected \subseteq Candidates(modal.rowsOf)))
  /\ undone' = {}
  /\ UNCHANGED <<modal, cache>> /\ UNCHANGED server

(* A row without an e-mail address is an error, and so is any answer that  *)
(* tells one; of the invitation it comes with the user made.               *)
CreateNext ==
  /\ import.created = None
  /\ \E a \in import.todo :
       LET rest == [import EXCEPT !.todo = @ \ {a}]
       IN \/ CanCreate(a) /\ CreateUser(a) /\ import' = [rest EXCEPT !.created = a]
          \/ (UNCHANGED server \/ (CanCreate(a) /\ CreateUser(a))) /\ import' = [rest EXCEPT !.errors = TRUE]
  /\ UNCHANGED <<modal, cache, rowless, undone>>

ImportedProjectNow == modal.project
ImportedProject == import.project

MapCreated ==
  /\ import.created # None
  /\ \/ /\ IsAdmin(Me) /\ MapUserToProject(import.created, ImportedProject, import.created)
        /\ import' = [import EXCEPT !.created = None]
     \/ import' = [import EXCEPT !.created = None, !.errors = TRUE] /\ UNCHANGED server
  /\ UNCHANGED <<modal, cache, rowless, undone>>

ImportDone == import # NoImport /\ import.todo = {} /\ import.created = None

(* With errors the modal stays open to show them. *)
EndImport ==
  /\ ImportDone /\ import' = NoImport
  /\ modal' = IF import.errors THEN modal ELSE Closed(modal)
  /\ undone' = {}
  /\ UNCHANGED <<cache, rowless>> /\ UNCHANGED server

(* Somebody else edits people: what it undoes of a run of the import.      *)
EditsOfOthers(kind) ==
  /\ EditPeople(kind)
  /\ undone' = undone \cup {a \in import.asked : link[a][import.project] = a /\ link'[a][import.project] # a}
  /\ UNCHANGED <<modal, cache, import, rowless>>

ConsoleStep ==
  \/ \E p \in Projects : OpenModal(p) \/ SelectProject(p)
  \/ RefreshList \/ OptionsArrive \/ OptionsFail \/ ToggleSelection \/ CloseModal
  \/ HandleImport \/ CreateNext \/ MapCreated \/ EndImport
-----------------------------------------------------------------------------
(* An import that ends without a message has linked every account that was *)
(* selected to the project it was submitted for, whatever is chosen in the *)
(* modal and whatever others do meanwhile (handleImport): a link is gone   *)
(* only where somebody else took it back after the import had made it, and *)
(* only accounts without a row, which the modal shows when it lists        *)
(* another project's accounts, are passed over in silence.                 *)
ImportTells ==
  ImportDone /\ ~import.errors /\ ~rowless =>
    \A a \in import.asked \ undone : link[a][import.project] = a
=============================================================================
