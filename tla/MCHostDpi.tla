----------------------------- MODULE MCHostDpi -----------------------------
EXTENDS HostDpi, TLC

CONSTANTS c1, c2, c3, ip1, ip2, ip3, www, cdn, local

MCConns == {c1, c2, c3}
MCIps == {ip1, ip2, ip3}
MCNames == {www, cdn, local}
MCDotted == {www, cdn}

\* connections and addresses are interchangeable
MCSymmetry == Permutations(MCConns) \cup Permutations(MCIps)
====
