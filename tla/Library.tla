------------------------------- MODULE Library -------------------------------
(***************************************************************************)
(* The models library: models and the print files that are their variants  *)
(* (models_library/routes/models_crud.py and print_files.py).  An upload   *)
(* is a coroutine of the event loop and holds it between two awaits,       *)
(* however many commits it makes there; the other handlers run in threads  *)
(* beside it.                                                              *)
(*                                                                         *)
(* Requests that are refused change nothing and are left out; so are the   *)
(* metadata of a file, prices and the mesh, which are only read, and the   *)
(* jobs that are made.  An id of a model is used again once the newest     *)
(* model is deleted, an id of a print file never is (AUTOINCREMENT).       *)
(***************************************************************************)
EXTENDS Naturals, Sequences, FiniteSets, FiniteSetsExt

CONSTANTS Coroutine,     \* requests served by the event loop
          ModelName,     \* what models and uploads are named
          MaxModels,     \* bounds: ids of models and print files
          MaxFiles

ASSUME LibraryAssumption ==
    /\ "benchy" \in ModelName /\ ModelName \subseteq {"benchy", "benchy (X1C)"}
    /\ {MaxModels, MaxFiles} \subseteq Nat \ {0}

VARIABLES model,        \* the models table
          file,         \* the print_files table
          filed,        \* the last id given to a print file
          task,         \* [Coroutine -> what is left of its request]
          scheduling    \* the print file schedule_print_file made a job for, 0 if none

libraryVars == <<model, file, filed, task, scheduling>>

ModelId == 1..MaxModels
FileId == 1..MaxFiles

\* No state of the code: as_uploaded, an upload made the model and nobody named it since.
NoModel == [row |-> FALSE, name |-> "benchy", as_uploaded |-> FALSE]
NoFile == [row |-> FALSE, model |-> 0, stored |-> FALSE, timed |-> FALSE, job |-> FALSE]
NoTask == [does |-> "nothing"]

LibraryTypeOK ==
    /\ model \in [ModelId -> [row : BOOLEAN, name : ModelName, as_uploaded : BOOLEAN]]
    /\ file \in [FileId -> [row : BOOLEAN, model : 0..MaxModels, stored : BOOLEAN, timed : BOOLEAN, job : BOOLEAN]]
    /\ filed \in 0..MaxFiles
    /\ \A c \in Coroutine : task[c].does \in {"nothing", "upload"}
    /\ scheduling \in 0..MaxFiles

LibraryInit ==
    /\ model = [m \in ModelId |-> NoModel]
    /\ file = [f \in FileId |-> NoFile] /\ filed = 0
    /\ task = [c \in Coroutine |-> NoTask]
    /\ scheduling = 0

-----------------------------------------------------------------------------
Models == {m \in ModelId : model[m].row}

\* The row id SQLite gives: one more than the largest in the table.
NextModel == 1 + Max({0} \cup Models)
CanMakeModel == NextModel \in ModelId

MakeModel(name, as_uploaded) ==
    model' = [model EXCEPT ![NextModel] =
                 [row |-> TRUE, name |-> name, as_uploaded |-> as_uploaded]]

CreateModel ==
    /\ CanMakeModel
    /\ \E name \in ModelName : MakeModel(name, FALSE)
    /\ UNCHANGED <<file, filed, task, scheduling>>

UpdateModel ==
    /\ \E m \in Models, name \in ModelName :
          model' = [model EXCEPT ![m].name = name, ![m].as_uploaded = FALSE]
    /\ UNCHANGED <<file, filed, task, scheduling>>

(* The print files of the model keep its id; a model with revisions is     *)
(* held by their foreign key.                                              *)
DeleteModel ==
    /\ \E m \in Models :
          model' = [model EXCEPT ![m] = NoModel]
    /\ UNCHANGED <<file, filed, task, scheduling>>

(* delete_print_file, delete_model_variant: the file itself stays on disk. *)
DeletePrintFile ==
    /\ \E f \in FileId : file[f].row /\ file' = [file EXCEPT ![f] = NoFile]
    /\ UNCHANGED <<model, filed, task, scheduling>>

(* schedule_print_file commits the job before the file names it; a file    *)
(* without a print time ends in an error first.                            *)
SchedulePrintFile ==
    /\ scheduling = 0
    /\ \E f \in FileId : file[f].row /\ file[f].timed /\ ~file[f].job /\ scheduling' = f
    /\ UNCHANGED <<model, file, filed, task>>

NameJob ==
    /\ scheduling # 0
    /\ file' = IF file[scheduling].row THEN [file EXCEPT ![scheduling].job = TRUE] ELSE file
    /\ scheduling' = 0
    /\ UNCHANGED <<model, filed, task>>

-----------------------------------------------------------------------------
(* What the event loop runs next: a coroutine that is not awaiting goes on *)
(* alone (fault: upload_3mf a plain function, run in a thread).            *)
LoopFreeFault(c) == TRUE
LoopFree(c) == \A d \in Coroutine \ {c} : task[d].does # "upload"

(* _normalize_model_name drops the printer a name ends in.                 *)
NormalName(name) == "benchy"

(* upload_3mf: a .3mf is attached to a model and then stored, a .gcode or  *)
(* .bgcode stored and then attached; each step is a commit of its own.     *)
UploadPrintFile(c) ==
    /\ task[c] = NoTask /\ LoopFree(c)
    /\ filed < MaxFiles
    /\ filed' = filed + 1
    /\ \E name \in ModelName, timed \in BOOLEAN :
          /\ file' = [file EXCEPT ![filed'] = [NoFile EXCEPT !.row = TRUE, !.timed = timed]]
          /\ task' = [task EXCEPT ![c] =
                [does |-> "upload", name |-> name, file |-> filed', model |-> 0,
                 left |-> IF timed THEN <<"look", "attach", "store">>
                          ELSE <<"store", "look", "attach">>]]
    /\ UNCHANGED <<model, scheduling>>

AtStep(c, step) == task[c].does = "upload" /\ LoopFree(c) /\ Head(task[c].left) = step

(* The next step; after the last one the request is answered.              *)
Onward(t) == IF Len(t.left) = 1 THEN NoTask ELSE [t EXCEPT !.left = Tail(@)]

Called(name) == {m \in Models : model[m].name \in {name, NormalName(name)}}

LookForModel(c) ==
    /\ AtStep(c, "look")
    /\ \/ \E m \in Called(task[c].name) :
             task' = [task EXCEPT ![c] =
                         [Onward(@) EXCEPT !.model = m]]
       \/ /\ Called(task[c].name) = {}
          /\ task' = [task EXCEPT ![c].left = <<"create">> \o Tail(@)]
    /\ UNCHANGED <<model, file, filed, scheduling>>

CreateUploaded(c) ==
    /\ AtStep(c, "create") /\ CanMakeModel
    /\ MakeModel(NormalName(task[c].name), TRUE)
    /\ task' = [task EXCEPT ![c] = [Onward(@) EXCEPT !.model = NextModel]]
    /\ UNCHANGED <<file, filed, scheduling>>

(* UPDATE print_files ... WHERE id: nothing, if the file was deleted.      *)
ChangeFile(f, changed) == IF file[f].row THEN [file EXCEPT ![f] = changed] ELSE file

AttachToModel(c) ==
    /\ AtStep(c, "attach")
    /\ LET f == task[c].file IN file' =
          ChangeFile(f, [file[f] EXCEPT !.model = task[c].model])
    /\ task' = [task EXCEPT ![c] = Onward(@)]
    /\ UNCHANGED <<model, filed, scheduling>>

StoreFile(c) ==
    /\ AtStep(c, "store")
    /\ LET f == task[c].file IN file' = ChangeFile(f, [file[f] EXCEPT !.stored = TRUE])
    /\ task' = [task EXCEPT ![c] = Onward(@)]
    /\ UNCHANGED <<model, filed, scheduling>>

(* The file is too large or does not parse, the disk is full, or the       *)
(* server stops: what was committed stays.                                 *)
TaskFails(c) ==
    /\ task[c] # NoTask
    /\ task' = [task EXCEPT ![c] = NoTask]
    /\ UNCHANGED <<model, file, filed, scheduling>>

LibraryNext ==
    \/ CreateModel \/ UpdateModel \/ DeleteModel \/ DeletePrintFile
    \/ SchedulePrintFile \/ NameJob
    \/ \E c \in Coroutine :
          \/ UploadPrintFile(c) \/ LookForModel(c) \/ CreateUploaded(c) \/ AttachToModel(c)
          \/ StoreFile(c) \/ TaskFails(c)

LibrarySpec == LibraryInit /\ [][LibraryNext]_libraryVars

-----------------------------------------------------------------------------
(* Uploads of one name share a model: an upload never adds a second model  *)
(* of a name that an earlier upload gave one, although it looks and        *)
(* inserts in two steps and nothing in the table forbids it.               *)
UploadsShareModels ==
    \A m, n \in Models :
        model[m].as_uploaded /\ model[n].as_uploaded /\ model[m].name = model[n].name => m = n
=============================================================================
