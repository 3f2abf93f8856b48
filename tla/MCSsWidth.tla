----------------------------- MODULE MCSsWidth ------------------------------
(* Columns for SsWidth.                                                    *)
EXTENDS SsWidth

SmallScreens ==
  [len : [1..5 -> 0..3], delim : {<<0, 1, 1, 0, 1>>}, screen : {3, 5, 8}]

=============================================================================
