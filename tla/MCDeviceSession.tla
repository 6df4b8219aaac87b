-------------------------- MODULE MCDeviceSession --------------------------
\* DeviceSession on a small instance: one account, one device.  Tokens and
\* requests are interchangeable model values.
EXTENDS DeviceSession, TLC

\* The account is active from the start.
MCDeviceInit ==
    /\ DeviceInit
    /\ \A u \in User : user[u].status = "active" /\ user[u].hash.current

MCDeviceSpec == MCDeviceInit /\ [][DeviceNext]_allVars

DeviceSymmetry == Permutations(TokenId) \cup Permutations(Call)

=============================================================================
