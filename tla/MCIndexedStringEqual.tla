------------------------ MODULE MCIndexedStringEqual ------------------------
EXTENDS IndexedStringEqual

\* Three clusters of a table whose keys have gaps (removed objects), so the
\* cursor must skip index entries and cluster boundaries fall between keys.
MCLayout == << <<0, 2>>, <<3, 4, 6>>, <<8>> >>
=============================================================================
