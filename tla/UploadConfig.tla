---------------------------- MODULE UploadConfig ----------------------------
(***************************************************************************)
(* tools/upload_config.py on the USB port of a bridge: it sets the keys of *)
(* a configuration one by one, saves and reboots, over a port that goes    *)
(* away when the board restarts.  It tells what happened by its exit code. *)
(*                                                                         *)
(* Of the keys there is one for each kind of the configuration store.  A   *)
(* command ends within the 1.5 s the tool gives it, and the port works as  *)
(* long as the board does not restart.                                     *)
(***************************************************************************)
EXTENDS ConfigStore

CONSTANTS NodeName, ChannelName, Alpha   (* the configuration to upload:   *)
                                         (* of ChannelNames and of Alphas  *)

KNOWN_KEYS == <<"node_name", "channel", "ema_alpha">>

VARIABLES
  tool,     (* what it does next: "set", "hear" the answer, "save",        *)
            (* "saving", "reconnect", "verify", "reboot", "exit"           *)
  key,      (* how many keys were sent                                     *)
  errors,   (* one of them was not answered with "OK"                      *)
  retrying, (* None, or in try_save_and_reboot after losing the port while *)
            (* it was to "set" or to "save"                                *)
  said,     (* it printed "Saved"                                          *)
  code      (* its exit code                                               *)

upload == <<vars, tool, key, errors, retrying, said, code>>

UploadInit ==
  /\ Init
  /\ tool = "set" /\ key = 0 /\ errors = FALSE
  /\ retrying = None /\ said = FALSE /\ code = None

-----------------------------------------------------------------------------
(* "bridge config set", answered with "OK" also when the table is full.    *)
Valid(k) == k = "node_name" => NodeName \in Names

Sets(k) ==
  \/ k = "node_name" /\ SetNode(NodeName)
  \/ k = "channel" /\ SetChannel(ChannelName, TRUE)
  \/ k = "ema_alpha" /\ SetAlpha(Alpha)
  \/ k = "channel" /\ Command /\ Full /\ Listed(ChannelName) = {} /\ UNCHANGED vars
  \/ ~Valid(k) /\ Command /\ UNCHANGED vars

SendKey ==
  /\ tool = "set" /\ key < Len(KNOWN_KEYS) /\ key' = key + 1
  /\ Sets(KNOWN_KEYS[key'])
  /\ tool' = "hear"
  /\ errors' = (errors \/ ~Valid(KNOWN_KEYS[key']))
  /\ UNCHANGED <<retrying, said, code>>

Hear ==
  /\ tool = "hear" /\ shell = "idle"
  /\ tool' = IF key = Len(KNOWN_KEYS) THEN "save" ELSE "set"
  /\ UNCHANGED <<vars, key, errors, retrying, said, code>>

Save ==
  /\ tool = "save" /\ SaveBegins
  /\ tool' = "saving" /\ UNCHANGED <<key, errors, retrying, said, code>>

(* Success is an answer with "save" in it, which "Save error" has as well, *)
(* and the echo of the command.                                            *)
HearSave ==
  /\ tool = "saving" /\ shell = "idle"
  /\ said' = TRUE
  /\ tool' = IF retrying = None THEN "verify" ELSE "reboot"
  /\ UNCHANGED <<vars, key, errors, retrying, code>>

Exit == tool' = "exit" /\ code' = IF errors /\ retrying # "save" THEN 1 ELSE 0

Verify ==
  /\ tool = "verify" /\ shell = "idle"
  /\ IF errors THEN Exit ELSE tool' = "reboot" /\ UNCHANGED code
  /\ UNCHANGED <<vars, key, errors, retrying, said>>

(* The reboot may be fast enough to look like one more lost connection.    *)
Reboot ==
  /\ tool = "reboot" /\ shell = "idle" /\ ShellRuns
  /\ Restart
  /\ Exit \/ (retrying # None /\ tool' = "reconnect" /\ UNCHANGED code)
  /\ UNCHANGED <<key, errors, retrying, said>>

(* Up to eight attempts to open the port again, and on with the save.      *)
Reconnect ==
  /\ tool = "reconnect" /\ tool' = "save"
  /\ UNCHANGED <<vars, key, errors, retrying, said, code>>

GiveUp == tool = "reconnect" /\ Exit /\ UNCHANGED <<vars, key, errors, retrying, said>>

(* The board restarts: the next access to the port raises an OSError.      *)
Disconnect ==
  /\ tool # "exit" /\ Restart
  /\ IF retrying = None /\ tool \in {"verify", "reboot"}
     THEN Exit /\ UNCHANGED retrying
     ELSE /\ tool' = "reconnect" /\ UNCHANGED code
          /\ retrying' = IF retrying # None THEN retrying
                         ELSE IF tool \in {"set", "hear"} THEN "set" ELSE "save"
  /\ UNCHANGED <<key, errors, said>>

Tool == \/ SendKey \/ Hear \/ Save \/ HearSave \/ Verify \/ Reboot \/ Reconnect \/ GiveUp
        \/ Disconnect

Board ==
  /\ \/ MountFails \/ Mount \/ Load \/ LoadFails \/ CopyEnds \/ EntryEnds
     \/ \E ok \in BOOLEAN : MainOpens(ok) \/ MainWrites(ok) \/ ShellOpens(ok) \/ ShellWrites(ok)
  /\ UNCHANGED <<tool, key, errors, retrying, said, code>>

UploadSpec == UploadInit /\ [][Tool \/ Board]_upload

-----------------------------------------------------------------------------
Uploaded ==
  /\ file # None /\ file.parts = 4
  /\ file.config.node = NodeName
  /\ \E j \in DOMAIN file.config.channels :
       file.config.channels[j] = [name |-> ChannelName, enabled |-> TRUE]
  /\ file.config.alpha = Alpha

(* The tool "uploads it to the Pico via serial shell commands, then saves  *)
(* it to flash" (upload_config.py:5): when it printed "Saved" and ended    *)
(* without an error every key is in the file.  After a restart halfway it  *)
(* saves what the board has loaded, and it takes "Save error" for success. *)
SavedMeansUploaded == said /\ code = 0 => Uploaded
=============================================================================
