------------------------------- MODULE MCFarm --------------------------------
(***************************************************************************)
(* The small components of the farm beside each other in one model: each   *)
(* behaviour chooses one of them in part and runs it, the others rest in   *)
(* their initial states.  They share no state, so that a property of one   *)
(* holds here exactly when it holds of its own specification.              *)
(***************************************************************************)
EXTENDS JobRoutes, SpoolLedger, JobQuota, PollTracking, EventHub, VisionWatch, DigestSends,
        TelemetryPaths, Sessions, OrderBook, CameraStreams, Library, Timelapses, Alerts,
        Outbound, PrinterCommands, Organizations, ArchiveShelf, AmsSlots, SmartPlugs,
        Maintenance, Onboarding

VARIABLE part

farmVars == <<part, jobVars, spoolVars, quotaVars, pollVars, hubVars, visionVars,
              digestVars, telemetryVars, sessionVars, orderVars, cameraVars, libraryVars,
              timelapseVars, alertVars, outboundVars, commandVars, orgVars, archiveVars,
              amsVars, plugVars, upkeepVars, setupVars>>

(* What rests while one component runs.                                    *)
BesideJobs == <<part, spoolVars, quotaVars, pollVars, hubVars, visionVars, digestVars,
                telemetryVars, sessionVars, orderVars, cameraVars, libraryVars,
                timelapseVars, alertVars, outboundVars, commandVars, orgVars, archiveVars,
                amsVars, plugVars, upkeepVars, setupVars>>
BesideSpool == <<part, jobVars, quotaVars, pollVars, hubVars, visionVars, digestVars,
                 telemetryVars, sessionVars, orderVars, cameraVars, libraryVars,
                 timelapseVars, alertVars, outboundVars, commandVars, orgVars, archiveVars,
                 amsVars, plugVars, upkeepVars, setupVars>>
BesideQuota == <<part, jobVars, spoolVars, pollVars, hubVars, visionVars, digestVars,
                 telemetryVars, sessionVars, orderVars, cameraVars, libraryVars,
                 timelapseVars, alertVars, outboundVars, commandVars, orgVars, archiveVars,
                 amsVars, plugVars, upkeepVars, setupVars>>
BesidePoll == <<part, jobVars, spoolVars, quotaVars, hubVars, visionVars, digestVars,
                telemetryVars, sessionVars, orderVars, cameraVars, libraryVars,
                timelapseVars, alertVars, outboundVars, commandVars, orgVars, archiveVars,
                amsVars, plugVars, upkeepVars, setupVars>>
BesideHub == <<part, jobVars, spoolVars, quotaVars, pollVars, visionVars, digestVars,
               telemetryVars, sessionVars, orderVars, cameraVars, libraryVars,
               timelapseVars, alertVars, outboundVars, commandVars, orgVars, archiveVars,
               amsVars, plugVars, upkeepVars, setupVars>>
BesideVision == <<part, jobVars, spoolVars, quotaVars, pollVars, hubVars, digestVars,
                  telemetryVars, sessionVars, orderVars, cameraVars, libraryVars,
                  timelapseVars, alertVars, outboundVars, commandVars, orgVars,
                  archiveVars, amsVars, plugVars, upkeepVars, setupVars>>
BesideDigest == <<part, jobVars, spoolVars, quotaVars, pollVars, hubVars, visionVars,
                  telemetryVars, sessionVars, orderVars, cameraVars, libraryVars,
                  timelapseVars, alertVars, outboundVars, commandVars, orgVars,
                  archiveVars, amsVars, plugVars, upkeepVars, setupVars>>
BesideTelemetry == <<part, jobVars, spoolVars, quotaVars, pollVars, hubVars, visionVars,
                     digestVars, sessionVars, orderVars, cameraVars, libraryVars,
                     timelapseVars, alertVars, outboundVars, commandVars, orgVars,
                     archiveVars, amsVars, plugVars, upkeepVars, setupVars>>
BesideSessions == <<part, jobVars, spoolVars, quotaVars, pollVars, hubVars, visionVars,
                    digestVars, telemetryVars, orderVars, cameraVars, libraryVars,
                    timelapseVars, alertVars, outboundVars, commandVars, orgVars,
                    archiveVars, amsVars, plugVars, upkeepVars, setupVars>>
BesideOrder == <<part, jobVars, spoolVars, quotaVars, pollVars, hubVars, visionVars,
                 digestVars, telemetryVars, sessionVars, cameraVars, libraryVars,
                 timelapseVars, alertVars, outboundVars, commandVars, orgVars, archiveVars,
                 amsVars, plugVars, upkeepVars, setupVars>>
BesideCamera == <<part, jobVars, spoolVars, quotaVars, pollVars, hubVars, visionVars,
                  digestVars, telemetryVars, sessionVars, orderVars, libraryVars,
                  timelapseVars, alertVars, outboundVars, commandVars, orgVars,
                  archiveVars, amsVars, plugVars, upkeepVars, setupVars>>
BesideLibrary == <<part, jobVars, spoolVars, quotaVars, pollVars, hubVars, visionVars,
                   digestVars, telemetryVars, sessionVars, orderVars, cameraVars,
                   timelapseVars, alertVars, outboundVars, commandVars, orgVars,
                   archiveVars, amsVars, plugVars, upkeepVars, setupVars>>
BesideTimelapse == <<part, jobVars, spoolVars, quotaVars, pollVars, hubVars, visionVars,
                     digestVars, telemetryVars, sessionVars, orderVars, cameraVars,
                     libraryVars, alertVars, outboundVars, commandVars, orgVars,
                     archiveVars, amsVars, plugVars, upkeepVars, setupVars>>
BesideAlerts == <<part, jobVars, spoolVars, quotaVars, pollVars, hubVars, visionVars,
                  digestVars, telemetryVars, sessionVars, orderVars, cameraVars,
                  libraryVars, timelapseVars, outboundVars, commandVars, orgVars,
                  archiveVars, amsVars, plugVars, upkeepVars, setupVars>>
BesideOutbound == <<part, jobVars, spoolVars, quotaVars, pollVars, hubVars, visionVars,
                    digestVars, telemetryVars, sessionVars, orderVars, cameraVars,
                    libraryVars, timelapseVars, alertVars, commandVars, orgVars,
                    archiveVars, amsVars, plugVars, upkeepVars, setupVars>>
BesideCommands == <<part, jobVars, spoolVars, quotaVars, pollVars, hubVars, visionVars,
                    digestVars, telemetryVars, sessionVars, orderVars, cameraVars,
                    libraryVars, timelapseVars, alertVars, outboundVars, orgVars,
                    archiveVars, amsVars, plugVars, upkeepVars, setupVars>>
BesideOrganizations == <<part, jobVars, spoolVars, quotaVars, pollVars, hubVars,
                         visionVars, digestVars, telemetryVars, sessionVars, orderVars,
                         cameraVars, libraryVars, timelapseVars, alertVars, outboundVars,
                         commandVars, archiveVars, amsVars, plugVars, upkeepVars, setupVars>>
BesideArchive == <<part, jobVars, spoolVars, quotaVars, pollVars, hubVars, visionVars,
                   digestVars, telemetryVars, sessionVars, orderVars, cameraVars,
                   libraryVars, timelapseVars, alertVars, outboundVars, commandVars,
                   orgVars, amsVars, plugVars, upkeepVars, setupVars>>
BesideAms == <<part, jobVars, spoolVars, quotaVars, pollVars, hubVars, visionVars,
               digestVars, telemetryVars, sessionVars, orderVars, cameraVars, libraryVars,
               timelapseVars, alertVars, outboundVars, commandVars, orgVars, archiveVars,
               plugVars, upkeepVars, setupVars>>
BesidePlug == <<part, jobVars, spoolVars, quotaVars, pollVars, hubVars, visionVars,
                digestVars, telemetryVars, sessionVars, orderVars, cameraVars, libraryVars,
                timelapseVars, alertVars, outboundVars, commandVars, orgVars, archiveVars,
                amsVars, upkeepVars, setupVars>>
BesideUpkeep == <<part, jobVars, spoolVars, quotaVars, pollVars, hubVars, visionVars,
                  digestVars, telemetryVars, sessionVars, orderVars, cameraVars,
                  libraryVars, timelapseVars, alertVars, outboundVars, commandVars,
                  orgVars, archiveVars, amsVars, plugVars, setupVars>>
BesideSetup == <<part, jobVars, spoolVars, quotaVars, pollVars, hubVars, visionVars,
                 digestVars, telemetryVars, sessionVars, orderVars, cameraVars,
                 libraryVars, timelapseVars, alertVars, outboundVars, commandVars, orgVars,
                 archiveVars, amsVars, plugVars, upkeepVars>>

(* A part that rests does so in one state; combinations of a webhook with  *)
(* refusing, and of V2 with another printer than a Bambu, are left out.    *)
FarmInit ==
    /\ part \in {"jobs", "spools", "quota", "poll", "hub", "vision", "digest", "telemetry",
                    "sessions", "orders", "cameras", "library", "timelapses", "alerts",
                    "outbound", "commands", "orgs", "archives", "ams", "smart_plugs",
                    "upkeep", "onboarding"}
    /\ JobsInit
    /\ SpoolInit
    /\ QuotaInit
    /\ PollInit
    /\ HubInit
    /\ VisionInit
    /\ DigestInit
    /\ TelemetryInit
    /\ SessionsInit
    /\ OrderInit
    /\ CameraInit
    /\ LibraryInit
    /\ TimelapseInit
    /\ AlertsInit
    /\ OutboundInit
    /\ CommandsInit
    /\ OrganizationsInit
    /\ ArchiveInit
    /\ AmsInit
    /\ PlugInit
    /\ UpkeepInit
    /\ SetupInit
    /\ part # "poll" => kind = "moonraker"
    /\ part # "vision" => detector = "spaghetti"
    /\ part # "commands" => adapter = "bambu" /\ ~secondV
    /\ part # "orgs" => groups = [t \in Tenant |-> "unused"]
    /\ part # "ams" => mmu = FALSE /\ taggedSpool = "unknown"
    /\ part # "smart_plugs" => ~wired
    /\ part = "alerts" => refusing = (webhook = NoWebhook)
    /\ part = "commands" => (secondV => adapter = "bambu")
    /\ part # "alerts" => ~refusing /\ webhook = NoWebhook /\ ~quietSet /\ ~quietNow

FarmNext ==
    \/ part = "jobs" /\ JobsNext /\ UNCHANGED BesideJobs
    \/ part = "spools" /\ SpoolNext /\ UNCHANGED BesideSpool
    \/ part = "quota" /\ QuotaNext /\ UNCHANGED BesideQuota
    \/ part = "poll" /\ PollNext /\ UNCHANGED BesidePoll
    \/ part = "hub" /\ HubNext /\ UNCHANGED BesideHub
    \/ part = "vision" /\ VisionNext /\ UNCHANGED BesideVision
    \/ part = "digest" /\ DigestNext /\ UNCHANGED BesideDigest
    \/ part = "telemetry" /\ TelemetryNext /\ UNCHANGED BesideTelemetry
    \/ part = "sessions" /\ SessionsNext /\ UNCHANGED BesideSessions
    \/ part = "orders" /\ OrderNext /\ UNCHANGED BesideOrder
    \/ part = "cameras" /\ CameraNext /\ UNCHANGED BesideCamera
    \/ part = "library" /\ LibraryNext /\ UNCHANGED BesideLibrary
    \/ part = "timelapses" /\ TimelapseNext /\ UNCHANGED BesideTimelapse
    \/ part = "alerts" /\ AlertsNext /\ UNCHANGED BesideAlerts
    \/ part = "outbound" /\ OutboundNext /\ UNCHANGED BesideOutbound
    \/ part = "commands" /\ CommandsNext /\ UNCHANGED BesideCommands
    \/ part = "orgs" /\ OrganizationsNext /\ UNCHANGED BesideOrganizations
    \/ part = "archives" /\ ArchiveNext /\ UNCHANGED BesideArchive
    \/ part = "ams" /\ AmsNext /\ UNCHANGED BesideAms
    \/ part = "smart_plugs" /\ PlugNext /\ UNCHANGED BesidePlug
    \/ part = "upkeep" /\ UpkeepNext /\ UNCHANGED BesideUpkeep
    \/ part = "onboarding" /\ SetupNext /\ UNCHANGED BesideSetup

FarmFairness == WF_timelapseVars(part = "timelapses" /\ ServiceStep)

FarmSpec == FarmInit /\ [][FarmNext]_farmVars /\ FarmFairness

-----------------------------------------------------------------------------
(* The variables of the component that runs keep their types.              *)
FarmTypeOK ==
    /\ part = "jobs" => JobsTypeOK
    /\ part = "spools" => SpoolTypeOK
    /\ part = "poll" => PollTypeOK
    /\ part = "digest" => DigestTypeOK
    /\ part = "telemetry" => TelemetryTypeOK
    /\ part = "sessions" => SessionsTypeOK
    /\ part = "orders" => OrderTypeOK
    /\ part = "cameras" => CameraTypeOK
    /\ part = "library" => LibraryTypeOK
    /\ part = "timelapses" => TimelapseTypeOK
    /\ part = "alerts" => AlertsTypeOK
    /\ part = "outbound" => OutboundTypeOK
    /\ part = "commands" => CommandsTypeOK
    /\ part = "orgs" => OrganizationsTypeOK
    /\ part = "archives" => ArchiveTypeOK
    /\ part = "ams" => AmsTypeOK
    /\ part = "smart_plugs" => PlugTypeOK
    /\ part = "upkeep" => UpkeepTypeOK
    /\ part = "onboarding" => SetupTypeOK
=============================================================================
