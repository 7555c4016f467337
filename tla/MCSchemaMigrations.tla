------------------------- MODULE MCSchemaMigrations -------------------------
EXTENDS SchemaMigrations

CONSTANTS e1, e2, e3, e4

MCLegacy == <<e1, e2>>
MCEvents == {e1, e2, e3, e4}
MCUnreadable == {<<"event", e2>>, <<"report", e1>>}
=============================================================================
