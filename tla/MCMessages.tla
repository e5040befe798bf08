----------------------------- MODULE MCMessages -----------------------------
(* HmiMessages with every report of up to three entries, and the two readers*)
(* of L1Manifest on manifests that differ in one package in any way, or    *)
(* consist of up to five packages of a few kinds.  A manifest is read      *)
(* before anything else happens, or none is.                               *)
EXTENDS HmiMessages, L1Manifest, SequencesExt

MCStatusLength == [s \in Statuses |-> IF s = "in_progress" THEN 11 ELSE 7]

MCReports == SeqOf(Entries, 3)

Good(ecu) ==
  [ecu |-> ecu, deviceType |-> "can", resources |-> "object",
   fullDownloadChecksum |-> "string", fullDownloadUrl |-> "string", fullSize |-> "number"]

FewPackages == {Good("WPC"), Good("VDCM"), [Good("WPC") EXCEPT !.deviceType = "lin"]}

MCLists == SeqOf(Packages, 1) \cup SeqOf(FewPackages, MaxPkgNum + 1)

MCInit == Init /\ ManifestInit

MCNext ==
  \/ manifest = NoManifest /\ Next /\ UNCHANGED manifest
  \/ Init /\ ManifestInit /\ ReadManifest /\ UNCHANGED vars

MCSpec == MCInit /\ [][MCNext]_<<vars, manifest>>
=============================================================================
