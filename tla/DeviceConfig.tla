---------------------------- MODULE DeviceConfig ----------------------------
(***************************************************************************)
(* The GamePad's configuration (device-config.cpp): three pages of groups  *)
(* of fields, each group with a CRC, some of them stored up to three times.*)
(*                                                                         *)
(* A copy of a group in a reply is abstracted to whether its CRC matches   *)
(* and to its value; what is not covered by a matching CRC is Garbage.     *)
(* One field is not: language_version_ is taken when the CRC of            *)
(* language_bank_ matches, from the two bytes of that CRC and one that no  *)
(* CRC covers.                                                             *)
(***************************************************************************)
EXTENDS Naturals, FiniteSetsExt

CONSTANTS
    Groups,       \* the groups of fields that are looked at
    Values,       \* good values of a group
    Default,      \* what the constructor sets
    Garbage       \* anything a damaged reply may hold

\* The groups that are stored once, in the first page and in the third, twice
\* and three times.
Page1  == {"wifi", "wowl_key", "wowl_mac", "wowl_setting", "last_channel"}
Twice  == {"board", "region", "volume", "gyro"}
Thrice == {"accel", "panel", "service_version"}
Page3  == {"language", "opening_screen", "development_config", "language_bank",
           "tv_remocon_version", "opening_screen1_version", "opening_screen2_version",
           "initial_boot_flag", "lcd_levels", "lcd_setting", "tv_remocon_ids",
           "airwave_setting"}

\* How many copies of each group there are, in the order they are tried.
Copies ==
    [g \in Page1 \cup Twice \cup Thrice \cup Page3 |->
        IF g \in Thrice THEN 3 ELSE IF g \in Twice THEN 2 ELSE 1]

ASSUME ConfigAssumption ==
    /\ Groups \subseteq DOMAIN Copies /\ {"panel", "language_bank"} \subseteq Groups
    /\ Default \notin Values /\ Garbage \notin Values \cup {Default}

\* The fields: those of the groups, and the one that has no CRC.
Fields == Groups \cup {"language_version"}

\* Replies of the right length: whether the layouts of the three pages, each
\* with a CRC of its own, are the ones the code knows, and what each copy of
\* each group holds.  In a page of another layout even a CRC that matches is
\* not the group's.  The bytes of language_version_ may hold anything.
CopiesOf(layout) ==
    [crc : {TRUE}, val : IF layout THEN Values ELSE {Garbage}]
        \cup [crc : {FALSE}, val : {Garbage}]

Blobs ==
    LET Places == {p \in Groups \X (1 .. 3) : p[2] <= Copies[p[1]]}
    IN  UNION {[layout : {l}, copy : [Places -> CopiesOf(l)], version : Values \cup {Garbage}] :
                  l \in BOOLEAN}

\* The constructor's values.
DefaultConfig == [f \in Fields |-> Default]

\* The if, else if, ... of a group: the first copy with a good CRC, or what
\* there was before.
GoodLastUnchecked(blob, g) ==                    \* else instead of else if
    {k \in 1 .. Copies[g] : blob.copy[<<g, k>>].crc \/ k = Copies[g]}
Good(blob, g) == {k \in 1 .. Copies[g] : blob.copy[<<g, k>>].crc}

LoadGroup(config, blob, g) ==
    LET good == Good(blob, g)
    IN  IF good = {} THEN config[g] ELSE blob.copy[<<g, Min(good)>>].val

\* The version goes with the bank's CRC, whatever its bytes hold.
LoadVersion(config, blob) ==
    IF Good(blob, "language_bank") = {} THEN config["language_version"] ELSE blob.version

LoadFromBlob(config, blob) ==
    IF blob.layout
    THEN [f \in Fields |-> IF f = "language_version" THEN LoadVersion(config, blob)
                           ELSE LoadGroup(config, blob, f)]
    ELSE config
=============================================================================
