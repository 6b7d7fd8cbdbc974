----------------------------- MODULE Timelapses ------------------------------
(***************************************************************************)
(* The timelapse service (archives/timelapse_capture.py), a process of its *)
(* own: every half minute it takes a frame of the printer's job, and when  *)
(* that job stops printing it encodes the frames into a video.  Beside it  *)
(* the routes of the server that delete and edit timelapses                *)
(* (printers/camera_routes.py).  One printer; reading and playing a        *)
(* timelapse and trimming its video change none of this state.             *)
(*                                                                         *)
(* Several jobs of the printer may have status 'printing' at a time, one   *)
(* that was never concluded among them; frames are of the last started.    *)
(*                                                                         *)
(* The statements of the service that begin with a comment sign, which the *)
(* databases refuse (PrintTracking, Refused), are taken as accepted here.  *)
(***************************************************************************)
EXTENDS Naturals, FiniteSets, FiniteSetsExt

CONSTANTS TimelapseJob,   \* ids of jobs
          MaxClips,       \* bounds: rows at a time; restarts of the service and
          MaxStops,       \* ticks of it that raised
          StaleEvery      \* finalize_stale_timelapses runs every so many ticks (10)

ASSUME TimelapseAssumption ==
    /\ 0 \notin TimelapseJob
    /\ MaxClips \in Nat \ {0} /\ MaxStops \in Nat /\ StaleEvery \in Nat \ {0}

VARIABLES filming,    \* the printer runs and its timelapse is switched on
          printing,   \* the printer's jobs with status 'printing'
          newest,     \* the one of them with the latest actual_start, 0 if there is none
          clip,       \* the timelapses table
          enough,     \* [id -> its directory has the two frames a video needs]
          following,  \* [job -> the id the service takes frames for, 0 if none]
          service,    \* where its loop is
          stops

timelapseVars == <<filming, printing, newest, clip, enough, following, service, stops>>

ClipId == 1..MaxClips
NoClip == [status |-> "none", job |-> 0]
AtRest(tick) == [step |-> "rest", ended |-> {}, stale |-> {}, clip |-> 0, tick |-> tick]

TimelapseTypeOK ==
    /\ filming \in BOOLEAN
    /\ printing \subseteq TimelapseJob
    /\ newest \in TimelapseJob \cup {0}
    /\ clip \in [ClipId -> [status : {"none", "capturing", "encoding", "ready", "failed"},
                            job : TimelapseJob \cup {0}]]
    /\ enough \in [ClipId -> BOOLEAN]
    /\ following \in [TimelapseJob -> 0..MaxClips]
    /\ service \in [step : {"rest", "ended", "stale"}, ended : SUBSET TimelapseJob,
                    stale : SUBSET ClipId, clip : 0..MaxClips, tick : 0..(StaleEvery - 1)]
    /\ stops \in 0..MaxStops

TimelapseInit ==
    /\ filming = FALSE /\ printing = {} /\ newest = 0
    /\ clip = [t \in ClipId |-> NoClip]
    /\ enough = [t \in ClipId |-> FALSE]
    /\ following = [j \in TimelapseJob |-> 0]
    /\ service = AtRest(0)
    /\ stops = 0

-----------------------------------------------------------------------------
(* Monitors, operators and the settings of a printer, which only tell the  *)
(* service what it is to film.  A status edited by hand brings no start.   *)
FilmingSwitched == filming' = ~filming /\ UNCHANGED <<printing, newest>>

JobStarts ==
    \E j \in TimelapseJob \ printing :
        /\ printing' = printing \cup {j}
        /\ newest' \in {j} \cup ({newest} \ {0})
        /\ UNCHANGED filming

JobStops ==
    \E j \in printing :
        /\ printing' = printing \ {j}
        /\ newest' \in IF newest # j THEN {newest}
                      ELSE IF printing = {j} THEN {0} ELSE printing \ {j}
        /\ UNCHANGED filming

PrinterChanges ==
    /\ FilmingSwitched \/ JobStarts \/ JobStops
    /\ UNCHANGED <<clip, enough, following, service, stops>>

Rows == {t \in ClipId : clip[t].status # "none"}
NextClip == 1 + Max({0} \cup Rows)

Capturing(j) == {t \in Rows : clip[t].status = "capturing" /\ clip[t].job = j}

(* get_or_create_timelapse: the row of the job that is still capturing, or *)
(* a new one (bound: none, when the ids are used up).                      *)
ClipFor(j) ==
    IF j = 0 THEN {} ELSE IF following[j] # 0 THEN {following[j]}
    ELSE IF Capturing(j) # {} THEN Capturing(j) ELSE {NextClip} \cap ClipId

(* The first half of main_loop: a frame of the job that prints, when       *)
(* go2rtc gives one; the other jobs it took frames of have ended.  Frames  *)
(* are not counted: any may be the one that makes them enough.             *)
TakeFrame(j) ==
    \E t \in ClipFor(j) :
        /\ clip' = IF following[j] = 0 /\ Capturing(j) = {}
                   THEN [clip EXCEPT ![t] = [status |-> "capturing", job |-> j]] ELSE clip
        /\ following' = [following EXCEPT ![j] = t]
        /\ \E more \in BOOLEAN : enough' = [enough EXCEPT ![t] = @ \/ more]

NoLonger(j) == {k \in TimelapseJob \ {j} : following[k] # 0}

ServiceTick ==
    /\ service.step = "rest"
    /\ LET j == IF filming THEN newest ELSE 0
       IN  /\ IF ClipFor(j) = {} THEN UNCHANGED <<clip, following, enough>> ELSE TakeFrame(j)
           /\ service' = [service EXCEPT !.step = "ended", !.ended = NoLonger(j)]
    /\ UNCHANGED <<filming, printing, newest, stops>>

(* encode_timelapse: no row, nothing; too few frames, failed; else ffmpeg, *)
(* which the loop waits for                                                *)
Encode(t, next) ==
    IF t \notin Rows THEN service' = next /\ UNCHANGED clip
    ELSE IF ~enough[t]
    THEN /\ clip' = [clip EXCEPT ![t].status = "failed"]
         /\ service' = next
    ELSE /\ clip' = [clip EXCEPT ![t].status = "encoding"]
         /\ service' = [next EXCEPT !.clip = t]

EncodeEnded ==
    /\ service.step = "ended" /\ service.clip = 0
    /\ \E j \in service.ended :
          /\ following' = [following EXCEPT ![j] = 0]
          /\ Encode(following[j], [service EXCEPT !.ended = @ \ {j}])
    /\ UNCHANGED <<filming, printing, newest, enough, stops>>

(* ffmpeg comes back; what it made replaces the frames, unless it failed. *)
EncodeDone ==
    /\ service.clip # 0
    /\ LET t == service.clip
       IN  \E made \in BOOLEAN :
              /\ clip' = IF t \in Rows
                         THEN [clip EXCEPT ![t].status = IF made THEN "ready" ELSE "failed"]
                         ELSE clip
              /\ enough' = IF made THEN [enough EXCEPT ![t] = FALSE] ELSE enough
    /\ service' = [service EXCEPT !.clip = 0]
    /\ UNCHANGED <<filming, printing, newest, following, stops>>

(* finalize_stale_timelapses: the rows that are capturing, read at once,   *)
(* and then those of them whose own job has another status, or is gone,    *)
(* whichever job is filmed (fault: those this process has frames of).      *)
OrphanedFault(t) == \E j \in TimelapseJob : following[j] = t
Orphaned(t) == clip[t].job \notin printing

NextTick == (service.tick + 1) % StaleEvery

EndedDone ==
    /\ service.step = "ended" /\ service.ended = {} /\ service.clip = 0
    /\ service' = IF service.tick = 0
                  THEN [service EXCEPT !.step = "stale",
                                       !.stale = {t \in Rows : clip[t].status = "capturing"}]
                  ELSE AtRest(NextTick)
    /\ UNCHANGED <<filming, printing, newest, clip, enough, following, stops>>

EncodeStale ==
    /\ service.step = "stale" /\ service.clip = 0
    /\ \E t \in service.stale :
          LET next == [service EXCEPT !.stale = @ \ {t}]
          IN  IF Orphaned(t) THEN Encode(t, next) ELSE service' = next /\ UNCHANGED clip
    /\ UNCHANGED <<filming, printing, newest, enough, following, stops>>

StaleDone ==
    /\ service.step = "stale" /\ service.stale = {} /\ service.clip = 0
    /\ service' = AtRest(NextTick)
    /\ UNCHANGED <<filming, printing, newest, clip, enough, following, stops>>

ServiceStep ==
    ServiceTick \/ EncodeEnded \/ EncodeDone \/ EndedDone \/ EncodeStale \/ StaleDone

(* A statement raises.  main_loop gives the tick up and does not count it; *)
(* finalize_stale_timelapses gives up the rows it has left.  The job whose *)
(* encoding raised is not followed any more, and its row stays as it is.   *)
TickRaises ==
    /\ stops < MaxStops
    /\ stops' = stops + 1
    /\ \/ /\ service.step = "ended"
          /\ service' = AtRest(service.tick)
          /\ \/ UNCHANGED following
             \/ \E j \in service.ended : following' = [following EXCEPT ![j] = 0]
       \/ /\ service.step = "stale"
          /\ service' = [service EXCEPT !.stale = {}, !.clip = 0]
          /\ UNCHANGED following
    /\ UNCHANGED <<filming, printing, newest, clip, enough>>

RestartService ==
    /\ stops < MaxStops
    /\ stops' = stops + 1
    /\ service' = AtRest(0)
    /\ following' = [j \in TimelapseJob |-> 0]
    /\ UNCHANGED <<filming, printing, newest, clip, enough>>

-----------------------------------------------------------------------------
DeleteTimelapse ==
    /\ \E t \in Rows :
          /\ clip' = [clip EXCEPT ![t] = NoClip]
          /\ enough' = [enough EXCEPT ![t] = FALSE]
    /\ UNCHANGED <<filming, printing, newest, following, service, stops>>

(* speed_timelapse makes another video of one that is ready.               *)
SpeedTimelapse ==
    /\ NextClip \in ClipId
    /\ \E t \in Rows :
          /\ clip[t].status = "ready"
          /\ clip' = [clip EXCEPT ![NextClip] = clip[t]]
    /\ UNCHANGED <<filming, printing, newest, enough, following, service, stops>>

TimelapseNext ==
    \/ PrinterChanges \/ DeleteTimelapse \/ SpeedTimelapse
    \/ TickRaises \/ RestartService
    \/ ServiceStep

TimelapseSpec == TimelapseInit /\ [][TimelapseNext]_timelapseVars /\ WF_timelapseVars(ServiceStep)

-----------------------------------------------------------------------------
(* No timelapse goes on capturing for ever once its own job has another    *)
(* status than 'printing': not one of a service that was restarted and     *)
(* forgot which jobs it filmed, nor one whose tick or encoding raised      *)
(* (finalize_stale_timelapses), when only so many do.  A job that is left  *)
(* 'printing' keeps its timelapse open.                                    *)
CapturesEnd ==
    \A t \in ClipId :
        []<>(clip[t].status # "capturing" \/ clip[t].job \in printing)
=============================================================================
