------------------------------ MODULE MCLibrary ------------------------------
(***************************************************************************)
(* The instance in which TLC checks Directories, Texts, Values and         *)
(* Messages.  They share nothing: part is the one that runs, and the       *)
(* others stay in one state, in which they do nothing.                     *)
(***************************************************************************)
EXTENDS Directories, Texts, Values, Messages, TLC

VARIABLE part

Symmetric == Permutations(EntryNames) \cup Permutations(Slots) \cup Permutations(Handles)

NoJob == [job |-> "none"]

DirectoriesStay ==
    /\ DirectoriesInit
    /\ windows = CHOOSE w \in Windows : TRUE
    /\ entries = {}
TextsStay == text = <<>> /\ scan = NoJob
ValuesStay == run = NoJob
MessagesStay == MessagesInit /\ build = CHOOSE b \in Builds : TRUE

LibraryInit ==
    \/ part = "directories" /\ DirectoriesInit /\ TextsStay /\ ValuesStay /\ MessagesStay
    \/ part = "texts" /\ DirectoriesStay /\ TextsInit /\ ValuesStay /\ MessagesStay
    \/ part = "values" /\ DirectoriesStay /\ TextsStay /\ ValuesInit /\ MessagesStay
    \/ part = "messages" /\ DirectoriesStay /\ TextsStay /\ ValuesStay /\ MessagesInit

LibraryNext ==
    /\ UNCHANGED part
    /\ \/ part = "directories" /\ DirectoriesNext /\ UNCHANGED <<textVars, run, messageVars>>
       \/ part = "texts" /\ TextsNext /\ UNCHANGED <<directoryVars, run, messageVars>>
       \/ part = "values" /\ ValuesNext /\ UNCHANGED <<directoryVars, textVars, messageVars>>
       \/ part = "messages" /\ MessagesNext /\ UNCHANGED <<directoryVars, textVars, run>>

LibrarySpec ==
    LibraryInit /\ [][LibraryNext]_<<part, directoryVars, textVars, run, messageVars>>
==============================================================================
