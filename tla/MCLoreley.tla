------------------------------- MODULE MCLoreley -------------------------------
(* Instances of the SPU for TLC: two slots, two sets of settings.            *)
EXTENDS LoreleyCore

Settings(on) == [b \in ConfigBits |-> b \in on]
Looping  == Settings({"loop", "irqena"})
Synced   == Settings({"syncon", "syncoff", "env"})
MCConfigs == {Looping, Synced}

Status(bits, c) ==
  [busy |-> "busy" \in bits, key_on |-> "key_on" \in bits,
   key_off |-> "key_off" \in bits, irqflag |-> "irqflag" \in bits, cfg |-> c]

Writes(s) == {Status({"key_on"}, Synced),
              Status({"key_on", "irqflag"}, Looping),
              Status({"key_off"}, Looping)}

MCRequests ==
  {[addr |-> StatusReg(1), write |-> TRUE, data |-> w] : w \in Writes(1)}
    \cup {[addr |-> StatusReg(1), write |-> FALSE, data |-> Blank],
          [addr |-> SyncReg, write |-> TRUE, data |-> [sync |-> TRUE]],
          [addr |-> SyncReg, write |-> FALSE, data |-> Blank]}

MCInitWords == {Status({}, Looping), Status({"busy"}, Looping)}

==============================================================================
