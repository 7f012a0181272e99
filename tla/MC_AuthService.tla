-------------------------- MODULE MC_AuthService ---------------------------
EXTENDS AuthService

CONSTANTS i1, i2, v1, v2, t1, t2

\* Two IPs, two pubkeys of which one is authorized, two concurrent tasks.
MCIps == {i1, i2}
MCPubkeys == {v1, v2}
MCAuthorized == {v1}
MCTasks == {t1, t2}

=============================================================================
