------------------------------- MODULE MCDevices -------------------------------
(* Small instances of Devices for TLC. *)
EXTENDS Devices, TLC

\* Users, sessions and organizations are interchangeable.
DeviceSymmetry == Permutations(User) \union Permutations(Session)
                    \union Permutations(Org)

\* No action reads appended; only action properties speak of it.
DeviceTables ==
  <<database, access, home, dissolved, sess, sweep, agent, node, snap, pub, exch, killed>>
================================================================================
