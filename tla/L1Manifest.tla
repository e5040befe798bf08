----------------------------- MODULE L1Manifest -----------------------------
(***************************************************************************)
(* The two readers of a level 1 manifest: bs_parse_l1_manifest of          *)
(* bs_dlc_utils.c, which checks every package and keeps what it has read,  *)
(* and dmc_msg_parse of dlc_server.c, which looks at the first package     *)
(* only, and which is the one in use.                                      *)
(*                                                                         *)
(* A manifest is what cJSON makes of the text: of a member that either     *)
(* reader looks for, its spelling and its type, as far as it decides       *)
(* something.  "none" stands for a member that is not there.  A manifest   *)
(* that is an array ends dmc_msg_parse, which compares the names that its  *)
(* elements do not have, and is left out.                                  *)
(***************************************************************************)
EXTENDS Integers, Sequences

CONSTANTS
  Lists,    \* of the packages that a manifest may have
  NoManifest

VARIABLE manifest  \* the one that is read, by both

\* By the spelling where a text is compared with others, else by the type.
Packages ==
  [ecu : {"WPC", "VDCM", "", "none", "number"},
   deviceType : {"eth", "can", "can-fd", "lin", "none"},
   resources : {"none", "string", "object"},
   fullDownloadChecksum : {"none", "string"},
   fullDownloadUrl : {"none", "string"},
   fullSize : {"string", "number"}]

\* A text that may not parse. With "manifest" or "packages" in capitals,
\* cJSON_GetObjectItem finds them and the strcmp of find_json_child does not. The list
\* are the elements of packages, or the members if it is an object.
Documents ==
  [json : BOOLEAN, capitals : BOOLEAN, manifest : {"none", "object", "string"},
   packages : {"none", "string", "object", "array"}, list : Lists]

ASSUME L1ManifestAssumption == Lists \subseteq Seq(Packages)

IsString(ecu) == ecu \in {"WPC", "VDCM", ""}

-----------------------------------------------------------------------------
(* bs_parse_l1_manifest *)

MaxPkgNum == 4

\* Mutant: the address is not looked at.
CompleteButUrl(pkg) ==
  /\ IsString(pkg.ecu)
  /\ pkg.deviceType \in {"eth", "can", "can-fd"}
  /\ pkg.resources = "object"
  /\ pkg.fullDownloadChecksum = "string"
  /\ pkg.fullSize = "number"

Complete(pkg) ==
  /\ IsString(pkg.ecu)
  /\ pkg.deviceType \in {"eth", "can", "can-fd"}
  /\ pkg.resources = "object"
  /\ pkg.fullDownloadChecksum = "string"
  /\ pkg.fullDownloadUrl = "string"
  /\ pkg.fullSize = "number"

\* The packages are filled in one after the other, up to the first that is not complete.
Kept(list) ==
  CHOOSE n \in 0..Len(list) :
    /\ \A i \in 1..n : Complete(list[i])
    /\ n < Len(list) => ~Complete(list[n + 1])

bs_parse_l1_manifest(doc) ==
  IF doc.json /\ doc.manifest = "object" /\ doc.packages = "array" /\ Len(doc.list) <= MaxPkgNum
  THEN [rc |-> IF Kept(doc.list) = Len(doc.list) THEN "OK" ELSE "BAD_DOCUMENT",
        pkg_num |-> Kept(doc.list),
        dev_ids |-> [i \in 1..Kept(doc.list) |-> doc.list[i].ecu]]
  ELSE [rc |-> "BAD_DOCUMENT", pkg_num |-> 0, dev_ids |-> <<>>]

-----------------------------------------------------------------------------
(* dmc_msg_parse *)

\* The first element, or the first member of what is no array; neither of a text.
FirstItem(doc) ==
  doc.packages \in {"array", "object"} /\ doc.list # <<>>

dmc_msg_parse(doc) ==
  IF /\ doc.json /\ ~doc.capitals
     /\ doc.manifest = "object" /\ doc.packages # "none"
     /\ FirstItem(doc)
     /\ IsString(doc.list[1].ecu)
     /\ doc.list[1].resources = "object"
     /\ doc.list[1].fullDownloadUrl = "string"
  THEN [stat |-> "DLC_PKG_NEW", dev_id |-> IF doc.list[1].ecu = "WPC" THEN "WPC" ELSE "VDCM"]
  ELSE [stat |-> "STAT_INVALID", dev_id |-> "unchanged"]

-----------------------------------------------------------------------------

ManifestInit == manifest = NoManifest

ReadManifest == manifest' \in Documents

ManifestSpec == ManifestInit /\ [][ReadManifest]_manifest

-----------------------------------------------------------------------------
(* Properties *)

\* The two readers (the TODO at dlc_server.c:848 is to give the second one what the DMC
\* sends): of a manifest whose first package is complete, with names in small letters,
\* the second one accepts this package, for the same device if that is a WPC or a VDCM,
\* whether the first one accepts the manifest or stops at a later package; and one that
\* the first one accepts is only refused for capitals, or because it has no packages.
ParsersAgree ==
  manifest # NoManifest =>
    LET bs == bs_parse_l1_manifest(manifest)
        dmc == dmc_msg_parse(manifest) IN
    /\ bs.pkg_num > 0 /\ ~manifest.capitals =>
         /\ dmc.stat = "DLC_PKG_NEW"
         /\ bs.dev_ids[1] \in {"WPC", "VDCM"} => dmc.dev_id = bs.dev_ids[1]
    /\ bs.rc = "OK" /\ dmc.stat = "STAT_INVALID" =>
         manifest.capitals \/ manifest.list = <<>>
=============================================================================
