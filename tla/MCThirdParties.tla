---------------------------- MODULE MCThirdParties ----------------------------
\* ThirdParties with two integrations, assets and processes.  A run of Discovery
\* begins with one integration, that holds one asset and sees two events, or two
\* and one; or with two of them, that see one event, or hold one asset each.
EXTENDS ThirdParties
CONSTANTS i1, i2, a1, a2, p1, p2
MCIntegrations == {i1, i2}
MCAssets == {a1, a2}
MCProcesses == {p1, p2}
Start(connected, x, y, spent) == [rows |-> connected, held |-> i1 :> x @@ i2 :> y, spent |-> spent]
MCStarts == {Start({i1}, <<a1>>, <<>>, 0), Start({i1}, <<a1, a2>>, <<a2>>, 1),
             Start({i1, i2}, <<a1>>, <<>>, 1), Start({i1, i2}, <<a1>>, <<a2>>, 2)}
=============================================================================
