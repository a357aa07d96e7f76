---------------------------- MODULE MCImageCache ----------------------------
\* Instances of ImageCache.
EXTENDS ImageCache
=============================================================================
