------------------------------ MODULE MCHwVirt ------------------------------
EXTENDS HwVirt

\* Two devices with SSR, so that events about one wait between events about the other.
MCDeviceIds == 1..2
=============================================================================
