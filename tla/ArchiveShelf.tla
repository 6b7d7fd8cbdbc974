---------------------------- MODULE ArchiveShelf -----------------------------
(***************************************************************************)
(* The archive of ended prints: archives/archive.py writes it,             *)
(* archives/routes/archives_crud.py, tags.py and projects.py order it.     *)
(* The routes are plain functions on the threads of the server.  A tag     *)
(* renamed or removed everywhere is read from all rows first and written   *)
(* in one transaction later; what a PATCH has set between is overwritten.  *)
(***************************************************************************)
EXTENDS Naturals, FiniteSets

CONSTANTS Curator,         \* callers of the tag routes at a time
          Tag, OrgId,
          ArchivePrinter,
          MaxArchives, MaxProjects

ASSUME ArchiveAssumption == MaxArchives \in Nat /\ MaxProjects \in Nat

VARIABLES shelf,      \* [ids of print_archives -> row]
          projects,   \* [ids of projects -> row]
          printerOrg, \* org_id; "free" for none, for a shared and for a deleted printer
          tagging     \* [Curator -> the rows its tag route has read]

archiveVars == <<shelf, projects, printerOrg, tagging>>

Ids == 1..MaxArchives
ProjectIds == 1..MaxProjects
NotFiled == [state |-> "unused"]
NoProject == 0
NoTagging == [step |-> "none"]
\* The caller's scope: its group, a superadmin, or a user without a group.
Scope == OrgId \cup {"super", "groupless"}

ArchiveTypeOK ==
    /\ shelf \in [Ids -> {NotFiled, [state |-> "deleted"]} \cup
                     [state : {"filed"}, printer : ArchivePrinter, tags : SUBSET Tag,
                      project : {NoProject} \cup ProjectIds]]
    /\ projects \in [ProjectIds -> {NotFiled} \cup
                        [state : {"active", "archived"}, org : OrgId \cup {"free"}]]
    /\ printerOrg \in [ArchivePrinter -> OrgId \cup {"free"}]
    /\ \A c \in Curator : tagging[c] = NoTagging \/ DOMAIN tagging[c].tags \subseteq Ids

ArchiveInit ==
    /\ shelf = [i \in Ids |-> NotFiled]
    /\ projects = [i \in ProjectIds |-> NotFiled]
    /\ printerOrg = [p \in ArchivePrinter |-> "free"]
    /\ tagging = [c \in Curator |-> NoTagging]

Filed == {i \in Ids : shelf[i].state = "filed"}
Projects == {i \in ProjectIds : projects[i].state # "unused"}

(* _check_archive_org_access takes every caller without a scope for a      *)
(* superadmin, check_org_access asks for the role as well.                 *)
SeesArchive(scope, i) ==
    scope \in {"super", "groupless"} \/ printerOrg[shelf[i].printer] \in {scope, "free"}
SeesProject(scope, i) == scope = "super" \/ projects[i].org \in {scope, "free"}

-----------------------------------------------------------------------------
\* create_print_archive, for a print_jobs row that has just ended.
FilePrint ==
    /\ \E i \in Ids, p \in ArchivePrinter :
          /\ \A k \in Ids : k < i <=> shelf[k] # NotFiled
          /\ shelf' = [shelf EXCEPT ![i] = [state |-> "filed", printer |-> p, tags |-> {},
                                            project |-> NoProject]]
    /\ UNCHANGED <<projects, printerOrg, tagging>>

\* Routes of other modules give a printer to an organisation or delete it.
PrinterMoves ==
    /\ \E p \in ArchivePrinter, org \in OrgId \cup {"free"} :
          printerOrg' = [printerOrg EXCEPT ![p] = org]
    /\ UNCHANGED <<shelf, projects, tagging>>

SetTags ==
    /\ \E scope \in Scope, i \in Filed, tags \in SUBSET Tag :
          SeesArchive(scope, i) /\ shelf' = [shelf EXCEPT ![i].tags = tags]
    /\ UNCHANGED <<projects, printerOrg, tagging>>

DeleteArchive ==
    /\ \E scope \in Scope, i \in Filed :
          SeesArchive(scope, i) /\ shelf' = [shelf EXCEPT ![i] = [state |-> "deleted"]]
    /\ UNCHANGED <<projects, printerOrg, tagging>>

(* rename_tag and delete_tag: the rows the caller sees that carry the tag, *)
(* and what their tags shall be.                                           *)
ReadTags(c) ==
    /\ tagging[c] = NoTagging
    /\ \E scope \in Scope, old \in Tag : \E new \in {{}} \cup {{t} : t \in Tag} :
          LET carrying == {i \in Filed : SeesArchive(scope, i) /\ old \in shelf[i].tags}
          IN  tagging' = [tagging EXCEPT ![c] =
                 [step |-> "read",
                  tags |-> [i \in carrying |-> (shelf[i].tags \ {old}) \cup new]]]
    /\ UNCHANGED <<shelf, projects, printerOrg>>

\* An UPDATE of a row deleted since then changes nothing.
WriteTags(c) ==
    /\ tagging[c] # NoTagging
    /\ tagging' = [tagging EXCEPT ![c] = NoTagging]
    /\ shelf' = [i \in Ids |->
          IF i \in Filed /\ i \in DOMAIN tagging[c].tags
          THEN [shelf[i] EXCEPT !.tags = tagging[c].tags[i]]
          ELSE shelf[i]]
    /\ UNCHANGED <<projects, printerOrg>>

TagRouteFails(c) ==
    /\ tagging[c] # NoTagging
    /\ tagging' = [tagging EXCEPT ![c] = NoTagging]
    /\ UNCHANGED <<shelf, projects, printerOrg>>

(* create_project takes any org_id the caller names; without one, and on   *)
(* import, it is the caller's scope.                                       *)
CreateProject ==
    /\ \E i \in ProjectIds, org \in OrgId \cup {"free"} :
          /\ \A k \in ProjectIds : k < i <=> projects[k] # NotFiled
          /\ projects' = [projects EXCEPT ![i] = [state |-> "active", org |-> org]]
    /\ UNCHANGED <<shelf, printerOrg, tagging>>

\* update_project sets any status again; delete_project is a status too.
SetProjectStatus ==
    /\ \E scope \in Scope, i \in Projects, state \in {"active", "archived"} :
          SeesProject(scope, i) /\ projects' = [projects EXCEPT ![i].state = state]
    /\ UNCHANGED <<shelf, printerOrg, tagging>>

\* Whose archives they are is not asked.
AssignArchives ==
    /\ \E scope \in Scope, i \in Projects, chosen \in SUBSET Filed \ {{}} :
          /\ SeesProject(scope, i)
          /\ shelf' = [k \in Ids |-> IF k \in chosen THEN [shelf[k] EXCEPT !.project = i] ELSE shelf[k]]
    /\ UNCHANGED <<projects, printerOrg, tagging>>


ArchiveNext ==
    \/ FilePrint \/ PrinterMoves \/ SetTags \/ DeleteArchive
    \/ CreateProject \/ SetProjectStatus \/ AssignArchives
    \/ \E c \in Curator : ReadTags(c) \/ WriteTags(c) \/ TagRouteFails(c)

ArchiveSpec == ArchiveInit /\ [][ArchiveNext]_archiveVars
=============================================================================
