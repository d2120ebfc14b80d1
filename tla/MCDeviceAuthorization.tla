----------------------- MODULE MCDeviceAuthorization -----------------------
\* Small instances of the device flow.  Confirmations, users, callbacks, polls
\* and devices are interchangeable, so their permutations are symmetries of the
\* safety runs.
EXTENDS DeviceAuthorization, TLC

Symmetry == Permutations(Devices) \cup Permutations(Confirmations)
              \cup Permutations(Users) \cup Permutations(Callbacks) \cup Permutations(Polls)

AnyFault == AllFaults
Crashes == {"outage", "crash"}
=============================================================================
