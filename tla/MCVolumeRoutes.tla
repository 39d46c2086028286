--------------------------- MODULE MCVolumeRoutes ---------------------------
(* VolumeRoutes for TLC: a service of two volumes and one of one, both of the *)
(* same driver; one handler takes the batch routes, one the others.           *)
EXTENDS VolumeRoutes, TLC

CONSTANTS s1, s2, v1, v2, v3, r1, r2, i1, i2, d

MCHome == (v1 :> s1) @@ (v2 :> s1) @@ (v3 :> s2)

MCDriverOf == [s \in Service |-> d]

\* One handler changes volumes while the other serves any other request.
Changing == {"volumeAttach", "volumeDetach", "volumeRemove", "volumeCreate",
             "volumeDetachAllForService"}

MCArrival ==
    (r1 :> Batch \cup (OnVolumeID \ Changing) \cup {"volumesForService", "snapshotsForService"})
    @@ (r2 :> Changing)

MCMask ==
    {{}, VolAttReqTrue, {"requested", "attached"}, {"requested", "unattached"}}

\* Of the first service's volumes one is free, if it exists, and one is taken; the
\* second's may be shared.
MCHolders == (v1 :> {{}}) @@ (v2 :> {{i1}}) @@ (v3 :> {{}, {i1}, {i1, i2}})

MCHostOf == (r1 :> i1) @@ (r2 :> i2)
=============================================================================
